---------------------------- MODULE Spec2Model ----------------------------
(***************************************************************************)
(* A model of the daily news pipeline: the publisher service (lists the    *)
(* day's objects, downloads them and commits them through the git data     *)
(* API), the orchestrator (fan-out over categories and articles, barrier,  *)
(* publish call) and the convert service (cleaning sub-pipelines, Markdown *)
(* rendering).                                                             *)
(***************************************************************************)
EXTENDS Integers, Sequences, FiniteSets, TLC

(***************************************************************************)
(* Bounds of the model.                                                    *)
(***************************************************************************)
\* number of objects the store may hold under today's prefix
MaxFiles == 2
\* publisher invocations in one behaviour
MaxRuns == 2
\* pushes of another writer to heads/main in one behaviour
MaxOther == 1
\* keys returned by one page of the prefix listing
PageSize == 1
\* categories in the Handler's urls map
NumCategories == 2
\* articles one extraction call returns at most
MaxArticles == 2
\* articles all extraction calls of one run return at most
MaxRunArticles == 2
\* calls of one run that get no response
MaxUnanswered == 1
\* requests sent to the cleaning service in one behaviour
MaxRequests == 2
\* headline links ScrapeHeadlines returns at most (the code's cap is HeadlineCap)
MaxLinks == 3

(***************************************************************************)
(* Data shared by the services.                                            *)
(***************************************************************************)
\* calendar days, as time.Now().Format("2006-01-02") tells them apart
Days == 1 .. 2

\* the empty map (make(map[string][]byte), an empty tree, an empty bucket)
EmptyMap == [x \in {} |-> <<>>]

\* the object key "news/{dir}/{day}_{name}.md"; name is the x-category-sniij
\* header "{category}_{index}", held as the pair <<category, index>>
S3Key(dir, day, name) == [dir |-> dir, day |-> day, name |-> name]

\* strings.HasPrefix(key, "news/{today}/"): what ListObjectsV2 selects
HasPrefix(key, today) == key.dir = today

\* (mutant) the path built from the category alone, the index dropped:
\* "{today}/{day}_{category}.md"
GithubFilePathNoIndex(today, fileKey) ==
    IF HasPrefix(fileKey, today)
    THEN [dir |-> today, file |-> <<fileKey.day, <<fileKey.name[1], 0>>>>]
    ELSE [dir |-> today, file |-> <<"news", fileKey.dir, fileKey.day, fileKey.name>>]

\* path.Join(today, strings.TrimPrefix(fileKey, prefix)): "{today}/{day}_{name}.md"
GithubFilePath(today, fileKey) ==
    IF HasPrefix(fileKey, today)
    THEN [dir |-> today, file |-> <<fileKey.day, fileKey.name>>]
    ELSE [dir |-> today, file |-> <<"news", fileKey.dir, fileKey.day, fileKey.name>>]

\* the order in which the store lists keys
KeyRank(k) == ((k.dir * 10 + k.day) * 10 + k.name[1]) * 10 + k.name[2]

RECURSIVE SortKeys(_)
SortKeys(S) ==
    IF S = {} THEN <<>>
    ELSE LET m == CHOOSE k \in S : \A j \in S : KeyRank(k) <= KeyRank(j)
         IN  <<m>> \o SortKeys(S \ {m})

\* the complete listing of the prefix "news/{today}/"
Listing(st, today) == SortKeys({k \in DOMAIN st : HasPrefix(k, today)})

Min(a, b) == IF a < b THEN a ELSE b

Range(f) == {f[x] : x \in DOMAIN f}

VARIABLES
    now,          \* the wall-clock day
    store,        \* the bucket: key -> bytes
    ghCommits,    \* the repository's commit objects: sha -> [parent, tree]
    ghHead,       \* heads/main
    ppc,          \* the publisher Handler's position
    today,        \* Handler: today
    files,        \* Handler: files (the keys ListFiles has collected)
    nextTok,      \* ListFiles: the paginator's continuation (keys already returned)
    dlIdx,        \* Handler: position of the download loop in files
    fileContents, \* Handler: fileContents, path -> bytes
    refSHA,       \* UploadFiles: *ref.Object.SHA as read by GetRef
    baseTree,     \* UploadFiles: baseTree
    newTree,      \* UploadFiles: newTree
    newCommit,    \* UploadFiles: commit.SHA (0: none created)
    status,       \* the Handler's response status (0: none)
    respBody,     \* the Handler's response body
    runs,         \* publisher invocations so far
    others,       \* pushes of the other writer so far
    otherShas,    \* history: the commits the other writer pushed
    headBefore,   \* history: heads/main when the invocation began
    failed,       \* history: the steps that failed in this invocation
    prevAborted,  \* history: the invocation before this one ended on a failure
                  \* and without a ref update
    ghCalls,      \* history: the version-control calls of this invocation, in order
    movedAfterRef \* history: another writer moved heads/main after GetRef

VARIABLES
    hpc,          \* the orchestrator Handler's position
    hwg,          \* Handler: wg, the counter of the category barrier
    cpc,          \* processArticles of each category: its position
    nArt,         \* processArticles: len(articles)
    spawnIdx,     \* processArticles: i, the next article to spawn
    cwg,          \* processArticles: wg, the counter of the article barrier
    apc,          \* each article task's position
    markdown,     \* each article task's markdown (the convert response body)
    scrapeRes,    \* history: outcome of each category's Scrape call
    convRes,      \* history: outcome of each article's ConvertToMarkdown call
    upRes,        \* history: outcome of each article's UploadToS3 call
    pubRes,       \* history: outcome of UploadToGitHub
    calls,        \* history: each article's convert calls, store-upload calls and
                  \* the PutObject the store-upload service completed for it
    logs,         \* history: the lines each article task has logged
    noAnswer,     \* history: the calls that got no response
    hstatus,      \* the Handler's response status (0: none)
    herr          \* the Handler's returned error

orchVars == <<hpc, hwg, cpc, nArt, spawnIdx, cwg, apc, markdown, scrapeRes,
              convRes, upRes, pubRes, calls, logs, noAnswer, hstatus, herr>>
VARIABLES
    vpc,            \* the convert Handler's position
    request,        \* the article in the request body
    article,        \* Handler: article
    vwg,            \* Handler: wg, the counter of the two sub-pipelines
    gcpc,           \* the content sub-pipeline's position
    cleanedContent, \* content sub-pipeline: cleanedContent
    gdpc,           \* the date sub-pipeline's position
    vResp,          \* the Handler's response: status and body
    contentCalls,   \* history: the content sub-pipeline's FetchGPT calls, in order
    dateCalls,      \* history: the date sub-pipeline's FetchGPT calls
    access          \* history: the fields of article each sub-pipeline has read
                    \* and written

VARIABLES
    kpc,            \* the cleaning service: its Handler's position, or "exited"
    gptRequest,     \* the body of the request being handled
    chatRes,        \* history: outcome of CreateChatCompletion for this request
    kResp,          \* the Handler's response: status and body (0: none)
    served,         \* requests received so far
    exits           \* history: times the process ended in log.Fatalf

gptVars == <<kpc, gptRequest, chatRes, kResp, served, exits>>

VARIABLES
    xpc,            \* the extraction Handler's position
    headlineLinks,  \* Handler: len(headlineLinks)
    linkIdx,        \* Handler: links for which a goroutine has been started
    xwg,            \* Handler: wg, the counter of the scraping goroutines
    spc,            \* each scraping goroutine's position
    results,        \* Handler: the buffer of the channel results
    resultsClosed,  \* Handler: close(results) has been called
    xArticles,      \* Handler: articles
    xResp,          \* the Handler's response: status and body
    scraped,        \* history: the links whose ScrapeArticle succeeded
    sends,          \* history: sends on results
    sendPanic       \* history: a send on the closed channel

crawlVars == <<xpc, headlineLinks, linkIdx, xwg, spc, results, resultsClosed,
               xArticles, xResp, scraped, sends, sendPanic>>
convVars == <<vpc, request, article, vwg, gcpc, cleanedContent, gdpc, vResp,
              contentCalls, dateCalls, access>>
pubVars == <<ppc, today, files, nextTok, dlIdx, fileContents, refSHA, baseTree,
             newTree, newCommit, status, respBody, runs, headBefore, failed,
             prevAborted, ghCalls, movedAfterRef>>
ghVars == <<ghCommits, ghHead, others, otherShas>>
nonPubVars == <<orchVars, convVars, gptVars, crawlVars>>
nonOrchVars == <<ghVars, pubVars, convVars, gptVars, crawlVars>>
nonConvVars == <<now, store, ghVars, pubVars, gptVars, crawlVars>>
nonGptVars == <<now, store, ghVars, pubVars, orchVars, convVars, crawlVars>>
nonCrawlVars == <<now, store, ghVars, pubVars, orchVars, convVars, gptVars>>
vars == <<now, store, ghVars, pubVars, orchVars, convVars, gptVars, crawlVars>>

(***************************************************************************)
(* The version-control host.                                               *)
(***************************************************************************)
\* is commit a the commit b or one of its ancestors
RECURSIVE IsAncestor(_, _, _)
IsAncestor(commits, a, b) ==
    IF b = 0 THEN FALSE
    ELSE IF a = b THEN TRUE
    ELSE IsAncestor(commits, a, commits[b].parent)

\* POST tree with base_tree: the entries layered onto the base tree
LayerTree(base, entries) ==
    [p \in DOMAIN base \cup DOMAIN entries |->
        IF p \in DOMAIN entries THEN entries[p] ELSE base[p]]

\* PATCH ref: a non-forced update is accepted only if it is a fast-forward
RefUpdateAccepted(commits, head, sha, force) ==
    force \/ IsAncestor(commits, head, sha)

\* (mutant) UpdateRef called with force
UpdateRefForced == TRUE

\* the force argument UploadFiles passes to UpdateRef
UpdateRefForce == FALSE

\* files the repository holds before the first publish
InitialTree == [p \in {[dir |-> 0, file |-> <<"README">>]} |-> <<"r">>]

\* a push of another writer: one more file on top of the current head
OtherWriterPush ==
    /\ others < MaxOther
    /\ ghCommits' = Append(ghCommits,
          [parent |-> ghHead,
           tree |-> LayerTree(ghCommits[ghHead].tree,
                       [p \in {[dir |-> 0, file |-> <<"other", others>>]} |-> <<"o">>])])
    /\ ghHead' = Len(ghCommits) + 1
    /\ others' = others + 1
    /\ otherShas' = otherShas \cup {Len(ghCommits) + 1}
    /\ movedAfterRef' =
          (movedAfterRef \/ ppc \in {"gettree", "createtree", "createcommit", "updateref"})
    /\ UNCHANGED <<now, store, ppc, today, files, nextTok, dlIdx, fileContents,
                   refSHA, baseTree, newTree, newCommit, status, respBody, runs, headBefore, prevAborted,
                   failed, ghCalls>>
    /\ UNCHANGED nonPubVars

(***************************************************************************)
(* The publisher: Handler, S3Downloader and GitHubUploader.                *)
(***************************************************************************)
\* (mutant) UploadFiles returns the same error whichever call failed
UploadFilesErrorSame(step) == "failed to upload files"

\* the error UploadFiles returns when the call of a step fails
UploadFilesError(step) ==
    CASE step = "getref" -> "failed to get HEAD reference"
      [] step = "gettree" -> "failed to get base tree"
      [] step = "createtree" -> "failed to create tree"
      [] step = "createcommit" -> "failed to create commit"
      [] step = "updateref" -> "failed to update HEAD reference"

\* the body of the Handler's 200 response
UploadedMessage == <<"Files uploaded successfully in a single commit">>

\* Handler up to the first ListFiles call: today, prefix, the paginator
PubStart ==
    /\ ppc \in {"idle", "done", "fatal"}
    /\ runs < MaxRuns
    /\ runs' = runs + 1
    /\ today' = now
    /\ ppc' = "list"
    /\ files' = <<>>
    /\ nextTok' = 0
    /\ dlIdx' = 1
    /\ fileContents' = EmptyMap
    /\ refSHA' = 0
    /\ baseTree' = EmptyMap
    /\ newTree' = EmptyMap
    /\ newCommit' = 0
    /\ status' = 0
    /\ respBody' = <<>>
    /\ headBefore' = ghHead
    /\ prevAborted' = (failed # {} /\ "updateref" \notin Range(ghCalls))
    /\ failed' = {}
    /\ ghCalls' = <<>>
    /\ movedAfterRef' = FALSE
    /\ UNCHANGED <<now, store, ghVars>>
    /\ UNCHANGED nonPubVars

\* (mutant) one ListObjectsV2 call instead of the paginator: the first page only
ListPageFirstOnly ==
    /\ ppc = "list"
    /\ \E ok \in BOOLEAN :
         IF ok
         THEN LET all == Listing(store, today)
                  upto == Min(nextTok + PageSize, Len(all))
              IN  /\ files' = files \o SubSeq(all, nextTok + 1, upto)
                  /\ nextTok' = upto
                  /\ ppc' = "download"
                  /\ UNCHANGED failed
         ELSE /\ ppc' = "fatal"
              /\ failed' = failed \cup {"list"}
              /\ files' = <<>>
              /\ UNCHANGED nextTok
    /\ UNCHANGED <<now, store, ghVars, today, dlIdx, fileContents, refSHA, baseTree,
                   newTree, newCommit, status, respBody, runs, headBefore, prevAborted, ghCalls,
                   movedAfterRef>>
    /\ UNCHANGED nonPubVars

\* ListFiles: one paginator.NextPage, its keys appended to files; on an error
\* ListFiles returns nil and the error, which is log.Fatalf in Handler
ListPage ==
    /\ ppc = "list"
    /\ \E ok \in BOOLEAN :
         IF ok
         THEN LET all == Listing(store, today)
                  upto == Min(nextTok + PageSize, Len(all))
              IN  /\ files' = files \o SubSeq(all, nextTok + 1, upto)
                  /\ nextTok' = upto
                  /\ ppc' = IF upto < Len(all) THEN "list" ELSE "download"
                  /\ UNCHANGED failed
         ELSE /\ ppc' = "fatal"
              /\ failed' = failed \cup {"list"}
              /\ files' = <<>>
              /\ UNCHANGED nextTok
    /\ UNCHANGED <<now, store, ghVars, today, dlIdx, fileContents, refSHA, baseTree,
                   newTree, newCommit, status, respBody, runs, headBefore, prevAborted, ghCalls,
                   movedAfterRef>>
    /\ UNCHANGED nonPubVars

\* (mutant) the download loop deletes each object it has downloaded
DownloadOneConsumes ==
    /\ ppc = "download"
    /\ dlIdx <= Len(files)
    /\ \E ok \in BOOLEAN :
         LET fileKey == files[dlIdx]
             githubFilePath == GithubFilePath(today, fileKey)
         IN  IF ok /\ fileKey \in DOMAIN store
             THEN /\ fileContents' =
                        [p \in DOMAIN fileContents \cup {githubFilePath} |->
                            IF p = githubFilePath THEN store[fileKey]
                            ELSE fileContents[p]]
                  /\ store' = [k \in DOMAIN store \ {fileKey} |-> store[k]]
                  /\ UNCHANGED failed
             ELSE /\ failed' = failed \cup {"download"}
                  /\ UNCHANGED <<fileContents, store>>
    /\ dlIdx' = dlIdx + 1
    /\ UNCHANGED <<now, ghVars, ppc, today, files, nextTok, refSHA, baseTree,
                   newTree, newCommit, status, respBody, runs, headBefore,
                   prevAborted, ghCalls, movedAfterRef>>
    /\ UNCHANGED nonPubVars

\* one iteration of the download loop: DownloadFile, and on an error log and continue
DownloadOne ==
    /\ ppc = "download"
    /\ dlIdx <= Len(files)
    /\ \E ok \in BOOLEAN :
         LET fileKey == files[dlIdx]
             githubFilePath == GithubFilePath(today, fileKey)
         IN  IF ok /\ fileKey \in DOMAIN store
             THEN /\ fileContents' =
                        [p \in DOMAIN fileContents \cup {githubFilePath} |->
                            IF p = githubFilePath THEN store[fileKey]
                            ELSE fileContents[p]]
                  /\ UNCHANGED failed
             ELSE /\ failed' = failed \cup {"download"}
                  /\ UNCHANGED fileContents
    /\ dlIdx' = dlIdx + 1
    /\ UNCHANGED <<now, store, ghVars, ppc, today, files, nextTok, refSHA, baseTree,
                   newTree, newCommit, status, respBody, runs, headBefore, prevAborted, ghCalls,
                   movedAfterRef>>
    /\ UNCHANGED nonPubVars

\* (mutant) UploadFiles called without the len(fileContents) > 0 test
CheckBatchNoGuard ==
    /\ ppc = "download"
    /\ dlIdx > Len(files)
    /\ ppc' = "getref"
    /\ UNCHANGED <<now, store, ghVars, today, files, nextTok, dlIdx, fileContents,
                   refSHA, baseTree, newTree, newCommit, status, respBody, runs, headBefore, prevAborted,
                   failed, ghCalls, movedAfterRef>>
    /\ UNCHANGED nonPubVars

\* if len(fileContents) > 0 { UploadFiles } ... else the 200 response
CheckBatch ==
    /\ ppc = "download"
    /\ dlIdx > Len(files)
    /\ IF DOMAIN fileContents # {}
       THEN /\ ppc' = "getref"
            /\ UNCHANGED <<status, respBody>>
       ELSE /\ ppc' = "done"
            /\ status' = 200
            /\ respBody' = UploadedMessage
    /\ UNCHANGED <<now, store, ghVars, today, files, nextTok, dlIdx, fileContents,
                   refSHA, baseTree, newTree, newCommit, runs, headBefore, prevAborted, failed,
                   ghCalls, movedAfterRef>>
    /\ UNCHANGED nonPubVars

\* UploadFiles returned an error: Handler answers 500 with the error in the body
UploadFailed(step) ==
    /\ failed' = failed \cup {step}
    /\ ppc' = "done"
    /\ status' = 500
    /\ respBody' = <<"Failed to upload files: ", UploadFilesError(step)>>

\* Git.GetRef(heads/main)
GetRef ==
    /\ ppc = "getref"
    /\ ghCalls' = Append(ghCalls, "getref")
    /\ \E ok \in BOOLEAN :
         IF ok
         THEN /\ refSHA' = ghHead
              /\ ppc' = "gettree"
              /\ UNCHANGED <<failed, status, respBody>>
         ELSE /\ UploadFailed("getref")
              /\ UNCHANGED refSHA
    /\ UNCHANGED <<now, store, ghVars, today, files, nextTok, dlIdx, fileContents,
                   baseTree, newTree, newCommit, runs, headBefore, prevAborted, movedAfterRef>>
    /\ UNCHANGED nonPubVars

\* (mutant) UploadFiles goes on after a failed GetTree
GetTreeIgnoresError ==
    /\ ppc = "gettree"
    /\ ghCalls' = Append(ghCalls, "gettree")
    /\ \E ok \in BOOLEAN :
         IF ok
         THEN /\ baseTree' = ghCommits[refSHA].tree
              /\ UNCHANGED failed
         ELSE /\ failed' = failed \cup {"gettree"}
              /\ UNCHANGED baseTree
    /\ ppc' = "createtree"
    /\ UNCHANGED <<now, store, ghVars, today, files, nextTok, dlIdx, fileContents,
                   refSHA, newTree, newCommit, status, respBody, runs, headBefore,
                   prevAborted, movedAfterRef>>
    /\ UNCHANGED nonPubVars

\* Git.GetTree(*ref.Object.SHA, recursive)
GetTree ==
    /\ ppc = "gettree"
    /\ ghCalls' = Append(ghCalls, "gettree")
    /\ \E ok \in BOOLEAN :
         IF ok
         THEN /\ baseTree' = ghCommits[refSHA].tree
              /\ ppc' = "createtree"
              /\ UNCHANGED <<failed, status, respBody>>
         ELSE /\ UploadFailed("gettree")
              /\ UNCHANGED baseTree
    /\ UNCHANGED <<now, store, ghVars, today, files, nextTok, dlIdx, fileContents,
                   refSHA, newTree, newCommit, runs, headBefore, prevAborted, movedAfterRef>>
    /\ UNCHANGED nonPubVars

\* the entries built from files, and Git.CreateTree(*baseTree.SHA, entries)
CreateTree ==
    /\ ppc = "createtree"
    /\ ghCalls' = Append(ghCalls, "createtree")
    /\ \E ok \in BOOLEAN :
         IF ok
         THEN /\ newTree' = LayerTree(baseTree, fileContents)
              /\ ppc' = "createcommit"
              /\ UNCHANGED <<failed, status, respBody>>
         ELSE /\ UploadFailed("createtree")
              /\ UNCHANGED newTree
    /\ UNCHANGED <<now, store, ghVars, today, files, nextTok, dlIdx, fileContents,
                   refSHA, baseTree, newCommit, runs, headBefore, prevAborted, movedAfterRef>>
    /\ UNCHANGED nonPubVars

\* (mutant) the commit is created without Parents
CreateCommitOrphan ==
    /\ ppc = "createcommit"
    /\ ghCalls' = Append(ghCalls, "createcommit")
    /\ \E ok \in BOOLEAN :
         IF ok
         THEN /\ ghCommits' = Append(ghCommits, [parent |-> 0, tree |-> newTree])
              /\ newCommit' = Len(ghCommits) + 1
              /\ ppc' = "updateref"
              /\ UNCHANGED <<failed, status, respBody>>
         ELSE /\ UploadFailed("createcommit")
              /\ UNCHANGED <<ghCommits, newCommit>>
    /\ UNCHANGED <<now, store, ghHead, others, otherShas, today, files, nextTok, dlIdx,
                   fileContents, refSHA, baseTree, newTree, runs, headBefore, prevAborted,
                   movedAfterRef>>
    /\ UNCHANGED nonPubVars

\* Git.CreateCommit: tree newTree, parent ref.Object.SHA
CreateCommit ==
    /\ ppc = "createcommit"
    /\ ghCalls' = Append(ghCalls, "createcommit")
    /\ \E ok \in BOOLEAN :
         IF ok
         THEN /\ ghCommits' = Append(ghCommits, [parent |-> refSHA, tree |-> newTree])
              /\ newCommit' = Len(ghCommits) + 1
              /\ ppc' = "updateref"
              /\ UNCHANGED <<failed, status, respBody>>
         ELSE /\ UploadFailed("createcommit")
              /\ UNCHANGED <<ghCommits, newCommit>>
    /\ UNCHANGED <<now, store, ghHead, others, otherShas, today, files, nextTok, dlIdx,
                   fileContents, refSHA, baseTree, newTree, runs, headBefore, prevAborted,
                   movedAfterRef>>
    /\ UNCHANGED nonPubVars

\* ref.Object.SHA = commit.SHA; Git.UpdateRef(ref, false)
UpdateRef ==
    /\ ppc = "updateref"
    /\ ghCalls' = Append(ghCalls, "updateref")
    /\ \E ok \in BOOLEAN :
         IF ok /\ RefUpdateAccepted(ghCommits, ghHead, newCommit, UpdateRefForce)
         THEN /\ ghHead' = newCommit
              /\ ppc' = "done"
              /\ status' = 200
              /\ respBody' = UploadedMessage
              /\ UNCHANGED failed
         ELSE /\ UploadFailed("updateref")
              /\ UNCHANGED ghHead
    /\ UNCHANGED <<now, store, ghCommits, others, otherShas, today, files, nextTok, dlIdx,
                   fileContents, refSHA, baseTree, newTree, newCommit, runs,
                   headBefore, prevAborted, movedAfterRef>>
    /\ UNCHANGED nonPubVars

(***************************************************************************)
(* The orchestrator: Handler, processArticles, the article tasks and the   *)
(* calls to the extraction, convert, store-upload and publisher services.  *)
(***************************************************************************)
Cats == 1 .. NumCategories
Idx == 0 .. MaxArticles - 1
Arts == Cats \X Idx

\* bodies the convert service may answer with: text, with or without an ANSI
\* escape sequence ("e" stands for one match of \x1B\[[0-9;]*[a-zA-Z])
ConvertBodies == {<<"t">>, <<"e", "t">>}

\* cleanANSI: every ANSI escape sequence removed
CleanANSI(input) == SelectSeq(input, LAMBDA x : x # "e")

\* the lines an article task logs: after a failed ConvertToMarkdown, after a
\* successful one, and after UploadToS3 has returned
ConvertFailedLine == "Failed to convert article to markdown"
ConvertedLine == "Successfully to Convert To Markdown"
UploadedLine == "Successfully to Upload To S3"

\* (mutant) the header without the article's index
CategoryHeaderNoIndex(category, i) == <<category, 0>>

\* UploadToS3: category + "_" + strconv.Itoa(i), the x-category-sniij header
CategoryHeader(category, i) == <<category, i>>

\* LambdaHandler of the store-upload service: the key it writes, the day read
\* from the clock once for the folder and once for the file name
UploadFilename(dirDay, fileDay, header) == S3Key(dirDay, fileDay, header)

\* S3Uploader.Upload: PutObject
PutObject(st, key, content) ==
    [k \in DOMAIN st \cup {key} |-> IF k = key THEN content ELSE st[k]]

\* LambdaHandler of the store-upload service: its status and the bucket after it
\* (an empty body is answered 400, a failed PutObject 500)
StoreUploadStatus(body, putOK) ==
    IF Len(body) = 0 THEN 400 ELSE IF putOK THEN 200 ELSE 500

\* Handler: one iteration of "for category, url := range urls": wg.Add(1), go
HandlerSpawn(c) ==
    /\ hpc = "spawn"
    /\ cpc[c] = "none"
    /\ hwg' = hwg + 1
    /\ cpc' = [cpc EXCEPT ![c] = "scrape"]
    /\ hpc' = IF \A d \in Cats \ {c} : cpc[d] # "none" THEN "wait" ELSE "spawn"
    /\ UNCHANGED <<now, store, nArt, spawnIdx, cwg, apc, markdown, scrapeRes,
                   convRes, upRes, pubRes, hstatus, herr, calls>>
    /\ UNCHANGED <<logs, noAnswer>>
    /\ UNCHANGED nonOrchVars

\* the articles the extraction calls of the run have returned so far
RECURSIVE ArticlesExtracted(_)
ArticlesExtracted(S) ==
    IF S = {} THEN 0
    ELSE LET c == CHOOSE x \in S : TRUE IN nArt[c] + ArticlesExtracted(S \ {c})

\* (mutant) wg.Done not deferred: the return on a Scrape error skips it
CategoryScrapeNoDone(c) ==
    /\ cpc[c] = "scrape"
    /\ \E ok \in BOOLEAN :
         IF ok
         THEN \E n \in 0 .. MaxArticles :
              /\ n + ArticlesExtracted(Cats) <= MaxRunArticles
              /\ scrapeRes' = [scrapeRes EXCEPT ![c] = "ok"]
              /\ nArt' = [nArt EXCEPT ![c] = n]
              /\ cpc' = [cpc EXCEPT ![c] = IF n = 0 THEN "wait" ELSE "spawn"]
         ELSE /\ scrapeRes' = [scrapeRes EXCEPT ![c] = "fail"]
              /\ cpc' = [cpc EXCEPT ![c] = "done"]
              /\ UNCHANGED nArt
    /\ UNCHANGED <<now, store, hpc, hwg, spawnIdx, cwg, apc, markdown, convRes, upRes,
                   pubRes, hstatus, herr, calls>>
    /\ UNCHANGED <<logs, noAnswer>>
    /\ UNCHANGED nonOrchVars

\* processArticles: Scrape(url); on an error log and return (the deferred wg.Done)
CategoryScrape(c) ==
    /\ cpc[c] = "scrape"
    /\ \E ok \in BOOLEAN :
         IF ok
         THEN \E n \in 0 .. MaxArticles :
              /\ n + ArticlesExtracted(Cats) <= MaxRunArticles
              /\ scrapeRes' = [scrapeRes EXCEPT ![c] = "ok"]
              /\ nArt' = [nArt EXCEPT ![c] = n]
              /\ cpc' = [cpc EXCEPT ![c] = IF n = 0 THEN "wait" ELSE "spawn"]
              /\ UNCHANGED hwg
         ELSE /\ scrapeRes' = [scrapeRes EXCEPT ![c] = "fail"]
              /\ cpc' = [cpc EXCEPT ![c] = "done"]
              /\ hwg' = hwg - 1
              /\ UNCHANGED nArt
    /\ UNCHANGED <<now, store, hpc, spawnIdx, cwg, apc, markdown, convRes, upRes,
                   pubRes, hstatus, herr, calls>>
    /\ UNCHANGED <<logs, noAnswer>>
    /\ UNCHANGED nonOrchVars

\* processArticles: one iteration of "for i, article := range articles"
CategorySpawn(c) ==
    /\ cpc[c] = "spawn"
    /\ spawnIdx[c] < nArt[c]
    /\ cwg' = [cwg EXCEPT ![c] = @ + 1]
    /\ apc' = [apc EXCEPT ![<<c, spawnIdx[c]>>] = "convert"]
    /\ spawnIdx' = [spawnIdx EXCEPT ![c] = @ + 1]
    /\ cpc' = [cpc EXCEPT ![c] = IF spawnIdx[c] + 1 < nArt[c] THEN "spawn" ELSE "wait"]
    /\ UNCHANGED <<now, store, hpc, hwg, nArt, markdown, scrapeRes, convRes, upRes,
                   pubRes, hstatus, herr, calls>>
    /\ UNCHANGED <<logs, noAnswer>>
    /\ UNCHANGED nonOrchVars

\* (mutant) processArticles returns without wg.Wait()
CategoryReturnNoWait(c) ==
    /\ cpc[c] = "wait"
    /\ cpc' = [cpc EXCEPT ![c] = "done"]
    /\ hwg' = hwg - 1
    /\ UNCHANGED <<now, store, hpc, nArt, spawnIdx, cwg, apc, markdown, scrapeRes,
                   convRes, upRes, pubRes, hstatus, herr, calls>>
    /\ UNCHANGED <<logs, noAnswer>>
    /\ UNCHANGED nonOrchVars

\* processArticles: wg.Wait() and the return (the deferred wg.Done of Handler's wg)
CategoryWait(c) ==
    /\ cpc[c] = "wait"
    /\ cwg[c] = 0
    /\ cpc' = [cpc EXCEPT ![c] = "done"]
    /\ hwg' = hwg - 1
    /\ UNCHANGED <<now, store, hpc, nArt, spawnIdx, cwg, apc, markdown, scrapeRes,
                   convRes, upRes, pubRes, hstatus, herr, calls>>
    /\ UNCHANGED <<logs, noAnswer>>
    /\ UNCHANGED nonOrchVars

\* (mutant) the return after a failed ConvertToMarkdown is missing: the task
\* goes on to UploadToS3 with the empty markdown
ConvertReturnedNoReturn(c, i, ok, body) ==
    /\ apc[<<c, i>>] = "convert"
    /\ calls' = [calls EXCEPT ![<<c, i>>].convert = @ + 1]
    /\ convRes' = [convRes EXCEPT ![<<c, i>>] = IF ok THEN "ok" ELSE "fail"]
    /\ markdown' = [markdown EXCEPT ![<<c, i>>] = IF ok THEN body ELSE <<>>]
    /\ logs' = [logs EXCEPT ![<<c, i>>] =
                   @ \cup (IF ok THEN {ConvertedLine} ELSE {ConvertFailedLine, ConvertedLine})]
    /\ apc' = [apc EXCEPT ![<<c, i>>] = "upload"]
    /\ UNCHANGED <<now, store, hpc, hwg, cpc, nArt, spawnIdx, cwg, scrapeRes, upRes,
                   pubRes, hstatus, herr>>
    /\ UNCHANGED noAnswer
    /\ UNCHANGED nonOrchVars

\* the article task once ConvertToMarkdown has returned: on an error log and
\* return (the deferred wg.Done), else keep the body
ConvertReturned(c, i, ok, body) ==
    /\ apc[<<c, i>>] = "convert"
    /\ calls' = [calls EXCEPT ![<<c, i>>].convert = @ + 1]
    /\ IF ok
       THEN /\ convRes' = [convRes EXCEPT ![<<c, i>>] = "ok"]
            /\ markdown' = [markdown EXCEPT ![<<c, i>>] = body]
            /\ logs' = [logs EXCEPT ![<<c, i>>] = @ \cup {ConvertedLine}]
            /\ apc' = [apc EXCEPT ![<<c, i>>] = "upload"]
            /\ UNCHANGED cwg
       ELSE /\ convRes' = [convRes EXCEPT ![<<c, i>>] = "fail"]
            /\ logs' = [logs EXCEPT ![<<c, i>>] = @ \cup {ConvertFailedLine}]
            /\ apc' = [apc EXCEPT ![<<c, i>>] = "done"]
            /\ cwg' = [cwg EXCEPT ![c] = @ - 1]
            /\ UNCHANGED markdown
    /\ UNCHANGED <<now, store, hpc, hwg, cpc, nArt, spawnIdx, scrapeRes, upRes,
                   pubRes, hstatus, herr>>
    /\ UNCHANGED noAnswer
    /\ UNCHANGED nonOrchVars

\* the article task: ConvertToMarkdown(article), a call of the convert service
ArticleConvert(c, i) ==
    \E ok \in BOOLEAN, body \in ConvertBodies : ConvertReturned(c, i, ok, body)

\* the ways a call of the store-upload service ends for UploadToS3: the request
\* fails before the service has acted ("error"); the service answers with a
\* status other than 200 ("rejected"); the service stores the object and answers
\* 200 but the answer does not reach UploadToS3 whole, by the client's Timeout
\* or a failed read of the body ("lost"); the answer is read ("stored")
UploadOutcomes == {"error", "rejected", "lost", "stored"}

\* the article task: UploadToS3(markdown, category, i), which returns nothing,
\* the log line after it and the return (the deferred wg.Done)
ArticleUploadAt(c, i, dirDay, fileDay) ==
    /\ apc[<<c, i>>] = "upload"
    /\ \E res \in UploadOutcomes :
         LET cleanedMarkdown == CleanANSI(markdown[<<c, i>>])
             key == UploadFilename(dirDay, fileDay, CategoryHeader(c, i))
             code == IF res = "error" THEN 0
                     ELSE StoreUploadStatus(cleanedMarkdown, res \in {"lost", "stored"})
         IN  /\ IF code = 200
                THEN /\ store' = PutObject(store, key, cleanedMarkdown)
                     /\ calls' = [calls EXCEPT ![<<c, i>>].upload = @ + 1,
                                               ![<<c, i>>].put = @ + 1]
                ELSE /\ UNCHANGED store
                     /\ calls' = [calls EXCEPT ![<<c, i>>].upload = @ + 1]
             /\ upRes' = [upRes EXCEPT ![<<c, i>>] =
                             IF code = 200 /\ res = "stored" THEN "ok" ELSE "fail"]
    /\ logs' = [logs EXCEPT ![<<c, i>>] = @ \cup {UploadedLine}]
    /\ apc' = [apc EXCEPT ![<<c, i>>] = "done"]
    /\ cwg' = [cwg EXCEPT ![c] = @ - 1]
    /\ UNCHANGED <<hpc, hwg, cpc, nArt, spawnIdx, markdown, scrapeRes, convRes,
                   pubRes, hstatus, herr>>
    /\ UNCHANGED noAnswer
    /\ UNCHANGED nonOrchVars

\* the article task's upload within one day: both clock reads of the store-upload
\* service give the same day
ArticleUpload(c, i) ==
    /\ ArticleUploadAt(c, i, now, now)
    /\ UNCHANGED now

\* the article task's upload when the day changes between the two clock reads of
\* the store-upload service
ArticleUploadOverMidnight(c, i) ==
    /\ now + 1 \in Days
    /\ ArticleUploadAt(c, i, now, now + 1)
    /\ now' = now + 1

\* the wall clock passes midnight
Tick ==
    /\ now + 1 \in Days
    /\ now' = now + 1
    /\ UNCHANGED <<store, ghVars, pubVars, orchVars, convVars, gptVars, crawlVars>>

\* Handler: wg.Wait()
HandlerWait ==
    /\ hpc = "wait"
    /\ hwg = 0
    /\ hpc' = "publish"
    /\ UNCHANGED <<now, store, hwg, cpc, nArt, spawnIdx, cwg, apc, markdown,
                   scrapeRes, convRes, upRes, pubRes, hstatus, herr, calls>>
    /\ UNCHANGED <<logs, noAnswer>>
    /\ UNCHANGED nonOrchVars

\* UploadToGitHub: the GET to the publisher service; every outcome is only logged
UploadToGitHub ==
    /\ hpc = "publish"
    /\ \E res \in {"error", "non200", "ok"} : pubRes' = res
    /\ hpc' = "return"
    /\ UNCHANGED <<now, store, hwg, cpc, nArt, spawnIdx, cwg, apc, markdown,
                   scrapeRes, convRes, upRes, hstatus, herr, calls>>
    /\ UNCHANGED <<logs, noAnswer>>
    /\ UNCHANGED nonOrchVars

\* Handler's call of UploadToGitHub reaches the publisher service: its Handler
\* is entered
PublishInvoke ==
    /\ hpc = "publish"
    /\ ppc = "idle"
    /\ PubStart

\* UploadToGitHub returns once the publisher service has ended: what it logs is
\* the publisher's status, or an error when the answer does not arrive (the
\* service died in log.Fatalf, the client's Timeout)
PublishAnswered ==
    /\ hpc = "publish"
    /\ ppc \in {"done", "fatal"}
    /\ \E arrived \in BOOLEAN :
         pubRes' = IF ~arrived \/ ppc = "fatal" THEN "error"
                   ELSE IF status = 200 THEN "ok" ELSE "non200"
    /\ hpc' = "return"
    /\ UNCHANGED <<now, store, hwg, cpc, nArt, spawnIdx, cwg, apc, markdown,
                   scrapeRes, convRes, upRes, hstatus, herr, calls>>
    /\ UNCHANGED <<logs, noAnswer>>
    /\ UNCHANGED nonOrchVars

\* (mutant) the Handler reports a failed publish call
HandlerReturnPublishStatus ==
    /\ hpc = "return"
    /\ hstatus' = IF pubRes = "ok" THEN 200 ELSE 500
    /\ herr' = "nil"
    /\ hpc' = "returned"
    /\ UNCHANGED <<now, store, hwg, cpc, nArt, spawnIdx, cwg, apc, markdown,
                   scrapeRes, convRes, upRes, pubRes, calls>>
    /\ UNCHANGED <<logs, noAnswer>>
    /\ UNCHANGED nonOrchVars

\* Handler: return events.APIGatewayProxyResponse{StatusCode: http.StatusOK}, nil
HandlerReturn ==
    /\ hpc = "return"
    /\ hstatus' = 200
    /\ herr' = "nil"
    /\ hpc' = "returned"
    /\ UNCHANGED <<now, store, hwg, cpc, nArt, spawnIdx, cwg, apc, markdown,
                   scrapeRes, convRes, upRes, pubRes, calls>>
    /\ UNCHANGED <<logs, noAnswer>>
    /\ UNCHANGED nonOrchVars

\* httpClient: Timeout, in seconds
HttpClientTimeout == 120

\* (mutant) an http.Client without Timeout: Do waits for the response for ever
HttpDoNoTimeout(arrives) == IF arrives THEN "response" ELSE "blocked"

\* httpClient.Do: the response when one arrives; when none does, the error at
\* the Timeout (a Timeout of 0 is no timeout)
HttpDo(arrives) ==
    IF arrives THEN "response"
    ELSE IF HttpClientTimeout > 0 THEN "error" ELSE "blocked"

\* the calls of the orchestrator, as noAnswer names them
ScrapeCall(c) == <<"scrape", <<c>>>>
ConvertCall(c, i) == <<"convert", <<c, i>>>>
UploadCall(c, i) == <<"upload", <<c, i>>>>
PublishCall == <<"publish", <<>>>>

\* processArticles: the extraction service does not answer Scrape's request
ScrapeNoAnswer(c) ==
    /\ cpc[c] = "scrape"
    /\ Cardinality(noAnswer) < MaxUnanswered
    /\ noAnswer' = noAnswer \cup {ScrapeCall(c)}
    /\ IF HttpDo(FALSE) = "error"
       THEN /\ scrapeRes' = [scrapeRes EXCEPT ![c] = "fail"]
            /\ cpc' = [cpc EXCEPT ![c] = "done"]
            /\ hwg' = hwg - 1
       ELSE /\ cpc' = [cpc EXCEPT ![c] = "blocked"]
            /\ UNCHANGED <<scrapeRes, hwg>>
    /\ UNCHANGED <<now, store, hpc, nArt, spawnIdx, cwg, apc, markdown, convRes, upRes,
                   pubRes, hstatus, herr, calls, logs>>
    /\ UNCHANGED nonOrchVars

\* the article task: the convert service does not answer ConvertToMarkdown's
\* request
ConvertNoAnswer(c, i) ==
    /\ apc[<<c, i>>] = "convert"
    /\ Cardinality(noAnswer) < MaxUnanswered
    /\ noAnswer' = noAnswer \cup {ConvertCall(c, i)}
    /\ calls' = [calls EXCEPT ![<<c, i>>].convert = @ + 1]
    /\ IF HttpDo(FALSE) = "error"
       THEN /\ convRes' = [convRes EXCEPT ![<<c, i>>] = "fail"]
            /\ logs' = [logs EXCEPT ![<<c, i>>] = @ \cup {ConvertFailedLine}]
            /\ apc' = [apc EXCEPT ![<<c, i>>] = "done"]
            /\ cwg' = [cwg EXCEPT ![c] = @ - 1]
       ELSE /\ apc' = [apc EXCEPT ![<<c, i>>] = "blocked"]
            /\ UNCHANGED <<convRes, logs, cwg>>
    /\ UNCHANGED <<now, store, hpc, hwg, cpc, nArt, spawnIdx, markdown, scrapeRes, upRes,
                   pubRes, hstatus, herr>>
    /\ UNCHANGED nonOrchVars

\* the article task: the store-upload service does not answer UploadToS3's
\* request, whether or not it has stored the object
UploadNoAnswer(c, i) ==
    /\ apc[<<c, i>>] = "upload"
    /\ Cardinality(noAnswer) < MaxUnanswered
    /\ noAnswer' = noAnswer \cup {UploadCall(c, i)}
    /\ \E putOK \in BOOLEAN :
         LET cleanedMarkdown == CleanANSI(markdown[<<c, i>>])
             key == UploadFilename(now, now, CategoryHeader(c, i))
         IN  IF StoreUploadStatus(cleanedMarkdown, putOK) = 200
             THEN /\ store' = PutObject(store, key, cleanedMarkdown)
                  /\ calls' = [calls EXCEPT ![<<c, i>>].upload = @ + 1,
                                            ![<<c, i>>].put = @ + 1]
             ELSE /\ UNCHANGED store
                  /\ calls' = [calls EXCEPT ![<<c, i>>].upload = @ + 1]
    /\ IF HttpDo(FALSE) = "error"
       THEN /\ upRes' = [upRes EXCEPT ![<<c, i>>] = "fail"]
            /\ logs' = [logs EXCEPT ![<<c, i>>] = @ \cup {UploadedLine}]
            /\ apc' = [apc EXCEPT ![<<c, i>>] = "done"]
            /\ cwg' = [cwg EXCEPT ![c] = @ - 1]
       ELSE /\ apc' = [apc EXCEPT ![<<c, i>>] = "blocked"]
            /\ UNCHANGED <<upRes, logs, cwg>>
    /\ UNCHANGED <<now, hpc, hwg, cpc, nArt, spawnIdx, markdown, scrapeRes, convRes,
                   pubRes, hstatus, herr>>
    /\ UNCHANGED nonOrchVars

\* UploadToGitHub: the publisher service does not answer the GET
PublishNoAnswer ==
    /\ hpc = "publish"
    /\ Cardinality(noAnswer) < MaxUnanswered
    /\ noAnswer' = noAnswer \cup {PublishCall}
    /\ IF HttpDo(FALSE) = "error"
       THEN /\ pubRes' = "error"
            /\ hpc' = "return"
       ELSE /\ hpc' = "blocked"
            /\ UNCHANGED pubRes
    /\ UNCHANGED <<now, store, hwg, cpc, nArt, spawnIdx, cwg, apc, markdown,
                   scrapeRes, convRes, upRes, hstatus, herr, calls, logs>>
    /\ UNCHANGED nonOrchVars

(***************************************************************************)
(* The convert service: Handler, its two cleaning sub-pipelines, FetchGPT  *)
(* and ConvertToMarkdown.                                                  *)
(***************************************************************************)
\* field values of an article: empty, text, text with an ANSI escape sequence
Texts == {<<>>, <<"t">>, <<"e", "t">>}

\* NewsArticle
Articles == [Title : Texts, Content : Texts, Date : Texts]

\* the zero value of NewsArticle
NoArticle == [Title |-> <<>>, Content |-> <<>>, Date |-> <<>>]

\* bodies the cleaning service may answer with
GptTexts == {<<"g">>, <<"h">>}

\* the prompts of the content sub-pipeline, PROMPT_CONTENT_1 .. 3, in call order
ContentPrompts == <<"PROMPT_CONTENT_1", "PROMPT_CONTENT_2", "PROMPT_CONTENT_3">>

\* (mutant) an article with nothing in it is rendered as the empty document
ConvertToMarkdownSkipsEmpty(a) ==
    IF Len(a.Title) + Len(a.Content) + Len(a.Date) = 0
    THEN <<>>
    ELSE <<"# **Title: ">> \o a.Title \o <<"**">> \o <<"\n\n  ">>
            \o <<"Content: ">> \o a.Content \o <<"\n\n  ">>
            \o <<"**Date: ">> \o a.Date \o <<"**">>

\* ConvertToMarkdown: "# **제목: %s**", "내용: %s", "**날짜: %s**" joined by "\n\n  "
ConvertToMarkdown(a) ==
    <<"# **Title: ">> \o a.Title \o <<"**">> \o <<"\n\n  ">>
        \o <<"Content: ">> \o a.Content \o <<"\n\n  ">>
        \o <<"**Date: ">> \o a.Date \o <<"**">>

\* the article task of category 1, index 0 is the one whose convert call is followed
\* into the convert service
Traced == <<1, 0>>

\* a read and a write of a field of article
Read(field) == <<"read", field>>
Write(field) == <<"write", field>>

\* no access by either sub-pipeline
NoAccess == [content |-> {}, date |-> {}]

\* access after a FetchGPT call of the content sub-pipeline, which reads
\* article.Content for the request, and writes it when wrote
ContentAccess(wrote) ==
    [access EXCEPT !.content =
        @ \cup {Read("Content")} \cup (IF wrote THEN {Write("Content")} ELSE {})]

\* access after the FetchGPT call of the date sub-pipeline, which reads the
\* field sent in the request, and writes article.Date when wrote
DateAccess(sent, wrote) ==
    [access EXCEPT !.date =
        @ \cup {Read(sent)} \cup (IF wrote THEN {Write("Date")} ELSE {})]

\* Handler: json.Unmarshal of the body, wg.Add(2) and the two go statements
ConvertStart ==
    /\ vpc = "idle"
    /\ apc[Traced] = "convert"
    /\ article' = request
    /\ vwg' = 2
    /\ gcpc' = 1
    /\ gdpc' = 1
    /\ vpc' = "wait"
    /\ UNCHANGED <<request, cleanedContent, vResp, contentCalls, dateCalls, access>>
    /\ UNCHANGED <<nonConvVars, orchVars>>

\* the record of one FetchGPT call: the GPTRequest sent, whether the call
\* succeeded and the text it returned ("" with an error)
GptCall(content, prompt, ok, resp) ==
    [Content |-> content, Prompt |-> prompt, ok |-> ok, resp |-> resp]

\* (mutant) a failed content call clears article.Content
ContentCallClearsOnError ==
    /\ vpc = "wait"
    /\ gcpc \in 1 .. 3
    /\ \E ok \in BOOLEAN :
         IF ok
         THEN \E resp \in GptTexts :
              /\ contentCalls' = Append(contentCalls,
                    GptCall(article.Content, ContentPrompts[gcpc], TRUE, resp))
              /\ cleanedContent' = resp
              /\ IF gcpc < 3
                 THEN /\ gcpc' = gcpc + 1
                      /\ UNCHANGED <<article, vwg>>
                 ELSE /\ article' = [article EXCEPT !.Content = resp]
                      /\ gcpc' = 0
                      /\ vwg' = vwg - 1
         ELSE /\ contentCalls' = Append(contentCalls,
                    GptCall(article.Content, ContentPrompts[gcpc], FALSE, <<>>))
              /\ gcpc' = 0
              /\ vwg' = vwg - 1
              /\ article' = [article EXCEPT !.Content = <<>>]
              /\ UNCHANGED cleanedContent
    /\ access' = ContentAccess(gcpc = 3 \/ ~contentCalls'[Len(contentCalls')].ok)
    /\ UNCHANGED <<vpc, request, gdpc, vResp, dateCalls>>
    /\ UNCHANGED <<nonConvVars, orchVars>>

\* (mutant) each content call after the first is sent the previous call's output
ContentCallChained ==
    /\ vpc = "wait"
    /\ gcpc \in 1 .. 3
    /\ \E ok \in BOOLEAN :
         LET sent == IF gcpc = 1 THEN article.Content ELSE cleanedContent
         IN  IF ok
             THEN \E resp \in GptTexts :
                  /\ contentCalls' = Append(contentCalls,
                        GptCall(sent, ContentPrompts[gcpc], TRUE, resp))
                  /\ cleanedContent' = resp
                  /\ IF gcpc < 3
                     THEN /\ gcpc' = gcpc + 1
                          /\ UNCHANGED <<article, vwg>>
                     ELSE /\ article' = [article EXCEPT !.Content = resp]
                          /\ gcpc' = 0
                          /\ vwg' = vwg - 1
             ELSE /\ contentCalls' = Append(contentCalls,
                        GptCall(sent, ContentPrompts[gcpc], FALSE, <<>>))
                  /\ gcpc' = 0
                  /\ vwg' = vwg - 1
                  /\ UNCHANGED <<article, cleanedContent>>
    /\ access' = ContentAccess(gcpc = 3 /\ contentCalls'[Len(contentCalls')].ok)
    /\ UNCHANGED <<vpc, request, gdpc, vResp, dateCalls>>
    /\ UNCHANGED <<nonConvVars, orchVars>>

\* (mutant) the return after a failed content call is missing: the chain goes on
\* with the "" that FetchGPT returned
ContentCallGoesOn ==
    /\ vpc = "wait"
    /\ gcpc \in 1 .. 3
    /\ \E ok \in BOOLEAN, r \in GptTexts :
         LET resp == IF ok THEN r ELSE <<>>
         IN  /\ contentCalls' = Append(contentCalls,
                   GptCall(article.Content, ContentPrompts[gcpc], ok, resp))
             /\ cleanedContent' = resp
             /\ IF gcpc < 3
                THEN /\ gcpc' = gcpc + 1
                     /\ UNCHANGED <<article, vwg>>
                ELSE /\ article' = [article EXCEPT !.Content = resp]
                     /\ gcpc' = 0
                     /\ vwg' = vwg - 1
    /\ access' = ContentAccess(gcpc = 3)
    /\ UNCHANGED <<vpc, request, gdpc, vResp, dateCalls>>
    /\ UNCHANGED <<nonConvVars, orchVars>>

\* content sub-pipeline: its next FetchGPT call, always on article.Content; on an
\* error log and return, after the third call article.Content = cleanedContent
\* (each return runs the deferred wg.Done)
ContentCall ==
    /\ vpc = "wait"
    /\ gcpc \in 1 .. 3
    /\ \E ok \in BOOLEAN :
         IF ok
         THEN \E resp \in GptTexts :
              /\ contentCalls' = Append(contentCalls,
                    GptCall(article.Content, ContentPrompts[gcpc], TRUE, resp))
              /\ cleanedContent' = resp
              /\ IF gcpc < 3
                 THEN /\ gcpc' = gcpc + 1
                      /\ UNCHANGED <<article, vwg>>
                 ELSE /\ article' = [article EXCEPT !.Content = resp]
                      /\ gcpc' = 0
                      /\ vwg' = vwg - 1
         ELSE /\ contentCalls' = Append(contentCalls,
                    GptCall(article.Content, ContentPrompts[gcpc], FALSE, <<>>))
              /\ gcpc' = 0
              /\ vwg' = vwg - 1
              /\ UNCHANGED <<article, cleanedContent>>
    /\ access' = ContentAccess(gcpc = 3 /\ contentCalls'[Len(contentCalls')].ok)
    /\ UNCHANGED <<vpc, request, gdpc, vResp, dateCalls>>
    /\ UNCHANGED <<nonConvVars, orchVars>>

\* (mutant) the return after a failed date call is missing: article.Date is set
\* to the "" that FetchGPT returned
DateCallStoresOnError ==
    /\ vpc = "wait"
    /\ gdpc = 1
    /\ \E ok \in BOOLEAN, r \in GptTexts :
         LET cleanedDate == IF ok THEN r ELSE <<>>
         IN  /\ dateCalls' = Append(dateCalls,
                   GptCall(article.Date, "PROMPT_DATE", ok, cleanedDate))
             /\ article' = [article EXCEPT !.Date = cleanedDate]
    /\ access' = DateAccess("Date", TRUE)
    /\ gdpc' = 0
    /\ vwg' = vwg - 1
    /\ UNCHANGED <<vpc, request, gcpc, cleanedContent, vResp, contentCalls>>
    /\ UNCHANGED <<nonConvVars, orchVars>>

\* (mutant) the date sub-pipeline sends article.Content, as the content
\* sub-pipeline's calls do
DateCallSendsContent ==
    /\ vpc = "wait"
    /\ gdpc = 1
    /\ \E ok \in BOOLEAN :
         IF ok
         THEN \E cleanedDate \in GptTexts :
              /\ dateCalls' = Append(dateCalls,
                    GptCall(article.Content, "PROMPT_DATE", TRUE, cleanedDate))
              /\ article' = [article EXCEPT !.Date = cleanedDate]
         ELSE /\ dateCalls' = Append(dateCalls,
                    GptCall(article.Content, "PROMPT_DATE", FALSE, <<>>))
              /\ UNCHANGED article
    /\ access' = DateAccess("Content", dateCalls'[Len(dateCalls')].ok)
    /\ gdpc' = 0
    /\ vwg' = vwg - 1
    /\ UNCHANGED <<vpc, request, gcpc, cleanedContent, vResp, contentCalls>>
    /\ UNCHANGED <<nonConvVars, orchVars>>

\* date sub-pipeline: FetchGPT on article.Date; on an error log and return, else
\* article.Date = cleanedDate (each return runs the deferred wg.Done)
DateCall ==
    /\ vpc = "wait"
    /\ gdpc = 1
    /\ \E ok \in BOOLEAN :
         IF ok
         THEN \E cleanedDate \in GptTexts :
              /\ dateCalls' = Append(dateCalls,
                    GptCall(article.Date, "PROMPT_DATE", TRUE, cleanedDate))
              /\ article' = [article EXCEPT !.Date = cleanedDate]
         ELSE /\ dateCalls' = Append(dateCalls,
                    GptCall(article.Date, "PROMPT_DATE", FALSE, <<>>))
              /\ UNCHANGED article
    /\ access' = DateAccess("Date", dateCalls'[Len(dateCalls')].ok)
    /\ gdpc' = 0
    /\ vwg' = vwg - 1
    /\ UNCHANGED <<vpc, request, gcpc, cleanedContent, vResp, contentCalls>>
    /\ UNCHANGED <<nonConvVars, orchVars>>

\* (mutant) the Handler renders and answers without wg.Wait()
ConvertRespondNoWait ==
    /\ vpc = "wait"
    /\ LET md == ConvertToMarkdown(article)
       IN  vResp' = IF Len(md) = 0
                    THEN [status |-> 500, body |-> <<"No articles processed">>]
                    ELSE [status |-> 200, body |-> md]
    /\ vpc' = "done"
    /\ UNCHANGED <<request, article, vwg, gcpc, cleanedContent, gdpc, contentCalls,
                   dateCalls, access>>
    /\ UNCHANGED <<nonConvVars, orchVars>>

\* Handler: wg.Wait(), ConvertToMarkdown(article) and the response
ConvertRespond ==
    /\ vpc = "wait"
    /\ vwg = 0
    /\ LET md == ConvertToMarkdown(article)
       IN  vResp' = IF Len(md) = 0
                    THEN [status |-> 500, body |-> <<"No articles processed">>]
                    ELSE [status |-> 200, body |-> md]
    /\ vpc' = "done"
    /\ UNCHANGED <<request, article, vwg, gcpc, cleanedContent, gdpc, contentCalls,
                   dateCalls, access>>
    /\ UNCHANGED <<nonConvVars, orchVars>>

\* the traced article task: ConvertToMarkdown(article) returns the service's answer
\* (an error for a status other than 200)
ArticleConvertAnswered ==
    /\ vpc = "done"
    /\ ConvertReturned(Traced[1], Traced[2], vResp.status = 200, vResp.body)

\* the traced article task: ConvertToMarkdown(article) returns an error of the
\* request itself (failed to send, the client's Timeout)
ArticleConvertError ==
    ConvertReturned(Traced[1], Traced[2], FALSE, <<>>)

(***************************************************************************)
(* The cleaning service (gpt-api): Handler and ChatGPT.                    *)
(***************************************************************************)
\* the prompts a GPTRequest may carry
GptPrompts == {"PROMPT_CONTENT_1", "PROMPT_CONTENT_2", "PROMPT_CONTENT_3", "PROMPT_DATE"}

\* request bodies: the JSON of a GPTRequest, or a body json.Unmarshal rejects
GptBodies ==
    [valid : {TRUE}, Content : Texts, Prompt : GptPrompts]
        \cup {[valid |-> FALSE, Content |-> <<>>, Prompt |-> ""]}

\* no response
NoResponse == [status |-> 0, body |-> <<>>]

\* Handler up to the call of ChatGPT: json.Unmarshal of the body, 400 on an error
GptHandler ==
    /\ kpc \in {"idle", "done"}
    /\ served < MaxRequests
    /\ served' = served + 1
    /\ chatRes' = "none"
    /\ \E body \in GptBodies :
         /\ gptRequest' = body
         /\ IF body.valid
            THEN /\ kpc' = "chat"
                 /\ kResp' = NoResponse
            ELSE /\ kpc' = "done"
                 /\ kResp' = [status |-> 400, body |-> <<"Invalid request body">>]
    /\ UNCHANGED exits
    /\ UNCHANGED nonGptVars

\* ChatGPT: CreateChatCompletion; on an error log.Fatalf, which ends the process
\* before ChatGPT returns; else Choices[0].Message.Content and Handler's 200
ChatGPT ==
    /\ kpc = "chat"
    /\ \E ok \in BOOLEAN :
         IF ok
         THEN \E gptResponse \in GptTexts :
              /\ chatRes' = "ok"
              /\ kResp' = [status |-> 200, body |-> gptResponse]
              /\ kpc' = "done"
              /\ UNCHANGED exits
         ELSE /\ chatRes' = "error"
              /\ kpc' = "exited"
              /\ exits' = exits + 1
              /\ UNCHANGED kResp
    /\ UNCHANGED <<gptRequest, served>>
    /\ UNCHANGED nonGptVars

\* main: lambda.Start(Handler) in a new process, which the platform starts for
\* the request that follows an exit
GptMain ==
    /\ kpc = "exited"
    /\ served < MaxRequests
    /\ kpc' = "idle"
    /\ UNCHANGED <<gptRequest, chatRes, kResp, served, exits>>
    /\ UNCHANGED nonGptVars

(***************************************************************************)
(* The extraction service (crawling): Handler and its scraping goroutines. *)
(***************************************************************************)
\* ScrapeHeadlines: if len(links) >= 5 { return false }
HeadlineCap == 5

Links == 1 .. MaxLinks

\* (mutant) results made without a buffer: make(chan NewsArticle)
ResultsUnbuffered(n) == 0

\* make(chan NewsArticle, len(headlineLinks)): the capacity of results
ResultsCapacity(n) == n

\* Handler up to the fan-out: the url parameter, FetchHTML and ScrapeHeadlines,
\* each answered with an error status when it fails
CrawlHandler ==
    /\ xpc = "idle"
    /\ \E res \in {"nourl", "fetchfail", "noheadlines", "ok"} :
         IF res = "ok"
         THEN \E n \in 1 .. Min(MaxLinks, HeadlineCap) :
              /\ headlineLinks' = n
              /\ xpc' = "spawn"
              /\ UNCHANGED xResp
         ELSE /\ xpc' = "done"
              /\ xResp' = [status |-> IF res = "nourl" THEN 400 ELSE 500, body |-> <<>>]
              /\ UNCHANGED headlineLinks
    /\ UNCHANGED <<linkIdx, xwg, spc, results, resultsClosed, xArticles, scraped,
                   sends, sendPanic>>
    /\ UNCHANGED nonCrawlVars

\* Handler: one iteration of "for _, link := range headlineLinks": wg.Add(1), go
CrawlSpawn ==
    /\ xpc = "spawn"
    /\ linkIdx < headlineLinks
    /\ xwg' = xwg + 1
    /\ spc' = [spc EXCEPT ![linkIdx + 1] = "scrape"]
    /\ linkIdx' = linkIdx + 1
    /\ xpc' = IF linkIdx + 1 < headlineLinks THEN "spawn" ELSE "wait"
    /\ UNCHANGED <<headlineLinks, results, resultsClosed, xArticles, xResp, scraped,
                   sends, sendPanic>>
    /\ UNCHANGED nonCrawlVars

\* a scraping goroutine: ScrapeArticle(url) returns; on an error log and return
\* (the deferred wg.Done)
ScrapeArticleReturned(g) ==
    /\ spc[g] = "scrape"
    /\ \E ok \in BOOLEAN :
         IF ok
         THEN /\ scraped' = scraped \cup {g}
              /\ spc' = [spc EXCEPT ![g] = "send"]
              /\ UNCHANGED xwg
         ELSE /\ spc' = [spc EXCEPT ![g] = "done"]
              /\ xwg' = xwg - 1
              /\ UNCHANGED scraped
    /\ UNCHANGED <<xpc, headlineLinks, linkIdx, results, resultsClosed, xArticles,
                   xResp, sends, sendPanic>>
    /\ UNCHANGED nonCrawlVars

\* a scraping goroutine: results <- article, which waits while the buffer is
\* full and panics on a closed channel, and the return (the deferred wg.Done)
SendResult(g) ==
    /\ spc[g] = "send"
    /\ IF resultsClosed
       THEN /\ sendPanic' = TRUE
            /\ UNCHANGED <<results, sends>>
       ELSE /\ Len(results) < ResultsCapacity(headlineLinks)
            /\ results' = Append(results, g)
            /\ sends' = sends + 1
            /\ UNCHANGED sendPanic
    /\ spc' = [spc EXCEPT ![g] = "done"]
    /\ xwg' = xwg - 1
    /\ UNCHANGED <<xpc, headlineLinks, linkIdx, resultsClosed, xArticles, xResp,
                   scraped>>
    /\ UNCHANGED nonCrawlVars

\* Handler: wg.Wait() and close(results)
CrawlWaitClose ==
    /\ xpc = "wait"
    /\ xwg = 0
    /\ resultsClosed' = TRUE
    /\ xpc' = "collect"
    /\ UNCHANGED <<headlineLinks, linkIdx, xwg, spc, results, xArticles, xResp,
                   scraped, sends, sendPanic>>
    /\ UNCHANGED nonCrawlVars

\* Handler: one iteration of "for article := range results", which waits on an
\* empty open channel and ends on an empty closed one; then the response, 500
\* when articles is empty
CrawlCollect ==
    /\ xpc = "collect"
    /\ IF Len(results) > 0
       THEN /\ xArticles' = Append(xArticles, Head(results))
            /\ results' = Tail(results)
            /\ UNCHANGED <<xpc, xResp>>
       ELSE /\ resultsClosed
            /\ xpc' = "done"
            /\ xResp' = IF Len(xArticles) = 0
                         THEN [status |-> 500, body |-> <<>>]
                         ELSE [status |-> 200, body |-> xArticles]
            /\ UNCHANGED <<xArticles, results>>
    /\ UNCHANGED <<headlineLinks, linkIdx, xwg, spc, resultsClosed, scraped, sends,
                   sendPanic>>
    /\ UNCHANGED nonCrawlVars

(***************************************************************************)
(* Initial states and specifications.                                      *)
(***************************************************************************)
\* the repository before the first publish, no other writer yet
InitGh ==
    /\ ghCommits = <<[parent |-> 0, tree |-> InitialTree]>>
    /\ ghHead = 1
    /\ others = 0
    /\ otherShas = {}

\* the publisher service, not yet invoked
InitPubVars ==
    /\ ppc = "idle"
    /\ today = 0
    /\ files = <<>>
    /\ nextTok = 0
    /\ dlIdx = 1
    /\ fileContents = EmptyMap
    /\ refSHA = 0
    /\ baseTree = EmptyMap
    /\ newTree = EmptyMap
    /\ newCommit = 0
    /\ status = 0
    /\ respBody = <<>>
    /\ runs = 0
    /\ headBefore = 1
    /\ failed = {}
    /\ prevAborted = FALSE
    /\ ghCalls = <<>>
    /\ movedAfterRef = FALSE

\* the orchestrator Handler as it is entered
InitOrchVars ==
    /\ hpc = "spawn"
    /\ hwg = 0
    /\ cpc = [c \in Cats |-> "none"]
    /\ nArt = [c \in Cats |-> 0]
    /\ spawnIdx = [c \in Cats |-> 0]
    /\ cwg = [c \in Cats |-> 0]
    /\ apc = [a \in Arts |-> "none"]
    /\ markdown = [a \in Arts |-> <<>>]
    /\ scrapeRes = [c \in Cats |-> "none"]
    /\ convRes = [a \in Arts |-> "none"]
    /\ upRes = [a \in Arts |-> "none"]
    /\ pubRes = "none"
    /\ calls = [a \in Arts |-> [convert |-> 0, upload |-> 0, put |-> 0]]
    /\ logs = [a \in Arts |-> {}]
    /\ noAnswer = {}
    /\ hstatus = 0
    /\ herr = "none"

\* the convert service, no request yet; request is the article it will be sent
InitConvVars ==
    /\ vpc = "idle"
    /\ article = NoArticle
    /\ vwg = 0
    /\ gcpc = 0
    /\ cleanedContent = <<>>
    /\ gdpc = 0
    /\ vResp = [status |-> 0, body |-> <<>>]
    /\ contentCalls = <<>>
    /\ dateCalls = <<>>
    /\ access = NoAccess

\* the cleaning service, no request yet
InitGptVars ==
    /\ kpc = "idle"
    /\ gptRequest = [valid |-> FALSE, Content |-> <<>>, Prompt |-> ""]
    /\ chatRes = "none"
    /\ kResp = NoResponse
    /\ served = 0
    /\ exits = 0

\* the extraction service, no request yet
InitCrawlVars ==
    /\ xpc = "idle"
    /\ headlineLinks = 0
    /\ linkIdx = 0
    /\ xwg = 0
    /\ spc = [g \in Links |-> "none"]
    /\ results = <<>>
    /\ resultsClosed = FALSE
    /\ xArticles = <<>>
    /\ xResp = NoResponse
    /\ scraped = {}
    /\ sends = 0
    /\ sendPanic = FALSE

\* the objects of today a bucket may hold when the publisher is invoked, and an
\* object of another day
PubKeys == {S3Key(1, 1, <<1, n>>) : n \in 0 .. MaxFiles - 1}
OtherDayKey == S3Key(2, 2, <<1, 0>>)

\* the bytes stored under a key: the Markdown of that day's article
PubContent(k) == <<"md", k.day, k.name[1], k.name[2]>>

\* the publisher service invoked on a bucket holding any of today's objects
InitPub ==
    /\ now = 1
    /\ \E K \in SUBSET PubKeys : store = [k \in K \cup {OtherDayKey} |-> PubContent(k)]
    /\ InitGh
    /\ InitPubVars
    /\ InitOrchVars
    /\ InitConvVars
    /\ InitGptVars
    /\ InitCrawlVars
    /\ request = NoArticle

\* one run of the orchestrator, the bucket empty
Init ==
    /\ now = 1
    /\ store = EmptyMap
    /\ InitGh
    /\ InitPubVars
    /\ InitOrchVars
    /\ InitConvVars
    /\ InitGptVars
    /\ InitCrawlVars
    /\ request = NoArticle

\* one article task at its convert call: the orchestrator after every category
\* but the first failed its extraction and the first spawned its only article
InitArticle ==
    /\ now = 1
    /\ store = EmptyMap
    /\ InitGh
    /\ InitPubVars
    /\ hpc = "wait"
    /\ hwg = 1
    /\ cpc = [c \in Cats |-> IF c = Traced[1] THEN "wait" ELSE "done"]
    /\ nArt = [c \in Cats |-> IF c = Traced[1] THEN 1 ELSE 0]
    /\ spawnIdx = [c \in Cats |-> IF c = Traced[1] THEN 1 ELSE 0]
    /\ cwg = [c \in Cats |-> IF c = Traced[1] THEN 1 ELSE 0]
    /\ apc = [a \in Arts |-> IF a = Traced THEN "convert" ELSE "none"]
    /\ markdown = [a \in Arts |-> <<>>]
    /\ scrapeRes = [c \in Cats |-> IF c = Traced[1] THEN "ok" ELSE "fail"]
    /\ convRes = [a \in Arts |-> "none"]
    /\ upRes = [a \in Arts |-> "none"]
    /\ pubRes = "none"
    /\ calls = [a \in Arts |-> [convert |-> 0, upload |-> 0, put |-> 0]]
    /\ logs = [a \in Arts |-> {}]
    /\ noAnswer = {}
    /\ hstatus = 0
    /\ herr = "none"
    /\ InitConvVars
    /\ InitGptVars
    /\ InitCrawlVars
    /\ request \in Articles

NextPub ==
    \/ PubStart
    \/ ListPage
    \/ DownloadOne
    \/ CheckBatch
    \/ GetRef
    \/ GetTree
    \/ CreateTree
    \/ CreateCommit
    \/ UpdateRef
    \/ OtherWriterPush

Next ==
    \/ \E c \in Cats : HandlerSpawn(c)
    \/ \E c \in Cats : CategoryScrape(c)
    \/ \E c \in Cats : CategorySpawn(c)
    \/ \E c \in Cats : CategoryWait(c)
    \/ \E c \in Cats, i \in Idx : ArticleConvert(c, i)
    \/ \E c \in Cats, i \in Idx : ArticleUpload(c, i)
    \/ HandlerWait
    \/ UploadToGitHub
    \/ HandlerReturn

NextArticle ==
    \/ ConvertStart
    \/ ContentCall
    \/ DateCall
    \/ ConvertRespond
    \/ ArticleConvertAnswered
    \/ ArticleConvertError
    \/ ArticleUpload(Traced[1], Traced[2])

\* one run of the orchestrator whose publish call invokes the publisher service
NextRun ==
    \/ \E c \in Cats : HandlerSpawn(c)
    \/ \E c \in Cats : CategoryScrape(c)
    \/ \E c \in Cats : CategorySpawn(c)
    \/ \E c \in Cats : CategoryWait(c)
    \/ \E c \in Cats, i \in Idx : ArticleConvert(c, i)
    \/ \E c \in Cats, i \in Idx : ArticleUpload(c, i)
    \/ HandlerWait
    \/ PublishInvoke
    \/ ListPage
    \/ DownloadOne
    \/ CheckBatch
    \/ GetRef
    \/ GetTree
    \/ CreateTree
    \/ CreateCommit
    \/ UpdateRef
    \/ PublishAnswered
    \/ HandlerReturn

\* one run of the orchestrator in which calls may get no response
NextDeadline ==
    \/ \E c \in Cats : HandlerSpawn(c)
    \/ \E c \in Cats : CategoryScrape(c)
    \/ \E c \in Cats : CategorySpawn(c)
    \/ \E c \in Cats : CategoryWait(c)
    \/ \E c \in Cats, i \in Idx : ArticleConvert(c, i)
    \/ \E c \in Cats, i \in Idx : ArticleUpload(c, i)
    \/ HandlerWait
    \/ UploadToGitHub
    \/ HandlerReturn
    \/ \E c \in Cats : ScrapeNoAnswer(c)
    \/ \E c \in Cats, i \in Idx : ConvertNoAnswer(c, i)
    \/ \E c \in Cats, i \in Idx : UploadNoAnswer(c, i)
    \/ PublishNoAnswer

\* one run of the orchestrator and the publisher it calls, on a clock that may
\* pass midnight
NextMidnight ==
    \/ \E c \in Cats : HandlerSpawn(c)
    \/ \E c \in Cats : CategoryScrape(c)
    \/ \E c \in Cats : CategorySpawn(c)
    \/ \E c \in Cats : CategoryWait(c)
    \/ \E c \in Cats, i \in Idx : ArticleConvert(c, i)
    \/ \E c \in Cats, i \in Idx : ArticleUpload(c, i)
    \/ \E c \in Cats, i \in Idx : ArticleUploadOverMidnight(c, i)
    \/ Tick
    \/ HandlerWait
    \/ PublishInvoke
    \/ ListPage
    \/ DownloadOne
    \/ CheckBatch
    \/ GetRef
    \/ GetTree
    \/ CreateTree
    \/ CreateCommit
    \/ UpdateRef
    \/ PublishAnswered
    \/ HandlerReturn

\* the cleaning service answering requests
NextGpt ==
    \/ GptHandler
    \/ ChatGPT
    \/ GptMain

\* the steps of the extraction Handler and its goroutines that the scheduler
\* runs: all but the return of ScrapeArticle, which waits for a remote answer
CrawlSteps ==
    \/ CrawlSpawn
    \/ \E g \in Links : SendResult(g)
    \/ CrawlWaitClose
    \/ CrawlCollect

\* the extraction service answering one request
NextCrawl ==
    \/ CrawlHandler
    \/ CrawlSpawn
    \/ \E g \in Links : ScrapeArticleReturned(g)
    \/ \E g \in Links : SendResult(g)
    \/ CrawlWaitClose
    \/ CrawlCollect

\* the orchestrator's tasks together with the convert service's sub-pipelines
\* for the traced article
NextTasks ==
    \/ \E c \in Cats : HandlerSpawn(c)
    \/ \E c \in Cats : CategoryScrape(c)
    \/ \E c \in Cats : CategorySpawn(c)
    \/ \E c \in Cats : CategoryWait(c)
    \/ \E c \in Cats, i \in Idx : ArticleConvert(c, i)
    \/ \E c \in Cats, i \in Idx : ArticleUpload(c, i)
    \/ ConvertStart
    \/ ContentCall
    \/ DateCall
    \/ ConvertRespond
    \/ ArticleConvertAnswered
    \/ HandlerWait
    \/ UploadToGitHub
    \/ HandlerReturn

\* the publisher service, with another writer of the branch
SpecPub == InitPub /\ [][NextPub]_vars

\* the orchestrator
Spec == Init /\ [][Next]_vars

\* the orchestrator under the scheduler's guarantee that a task that can take a
\* step takes one (every call returns: httpClient has a Timeout)
FairSpec == Spec /\ WF_vars(Next)

\* the orchestrator with calls that get no response, under the same guarantee:
\* a task that can take a step takes one
SpecDeadline == Init /\ [][NextDeadline]_vars /\ WF_vars(NextDeadline)

\* a run of the orchestrator and the publisher around midnight
SpecMidnight == Init /\ [][NextMidnight]_vars

\* the cleaning service
SpecGpt == Init /\ [][NextGpt]_vars

\* the extraction service, under the scheduler's guarantee that a goroutine
\* that can take a step takes one
SpecCrawl == Init /\ [][NextCrawl]_vars /\ WF_vars(CrawlSteps)

\* all concurrent tasks of a run: category tasks, article tasks and the two
\* sub-pipelines of the convert service
SpecTasks == Init /\ [][NextTasks]_vars

\* the orchestrator together with the publisher service it calls
SpecRun == Init /\ [][NextRun]_vars

\* one article from the orchestrator's convert call through the convert service
\* to the store upload
SpecArticle == InitArticle /\ [][NextArticle]_vars

(***************************************************************************)
(* Properties of the publisher.                                            *)
(***************************************************************************)
\* the publisher invocation has ended (a response, or log.Fatalf)
PubEnded == ppc \in {"done", "fatal"}

\* every object listed under news/{today}/ is in the tree of commit sha, with
\* the bytes the store holds
TreeHoldsBatch(sha) ==
    \A k \in DOMAIN store :
        HasPrefix(k, today) =>
            /\ GithubFilePath(today, k) \in DOMAIN ghCommits[sha].tree
            /\ ghCommits[sha].tree[GithubFilePath(today, k)] = store[k]

\* C1: all-or-nothing publish. After a publisher invocation (no other writer
\* involved) heads/main is the head from before the invocation, or it is the new
\* commit and that commit's tree holds every object listed under news/{today}/.
C1_AllOrNothing ==
    (PubEnded /\ others = 0) =>
        \/ ghHead = headBefore
        \/ (ghHead = newCommit /\ TreeHoldsBatch(newCommit))

\* C3: batch/tree bijection. Once CreateTree has been called for a non-empty
\* listing, the entries passed to it are one per listed object, no other, each
\* with the bytes of its object.
C3_BatchTreeBijection ==
    ("createtree" \in Range(ghCalls)) =>
        LET B == {k \in DOMAIN store : HasPrefix(k, today)}
        IN  B # {} =>
              /\ DOMAIN fileContents = {GithubFilePath(today, k) : k \in B}
              /\ Cardinality(DOMAIN fileContents) = Cardinality(B)
              /\ \A k \in B : fileContents[GithubFilePath(today, k)] = store[k]

\* C4: abort on early failure. If listing, a download, get-ref, get-tree,
\* create-tree or create-commit failed in the invocation, UpdateRef was not
\* called and (no other writer involved) heads/main is unchanged.
C4_AbortOnEarlyFailure ==
    (PubEnded /\ failed \cap {"list", "download", "getref", "gettree",
                              "createtree", "createcommit"} # {}) =>
        /\ "updateref" \notin Range(ghCalls)
        /\ (others = 0 => ghHead = headBefore)

\* C5: a concurrent advance of the branch is rejected. If another writer moved
\* heads/main after the publisher's GetRef and the publisher went on to call
\* UpdateRef, the update failed, the publisher's commit is not reachable from
\* heads/main, and in every state every commit the other writer pushed is
\* reachable from heads/main (never overwritten).
C5_ConcurrentAdvanceRejected ==
    /\ \A o \in otherShas : IsAncestor(ghCommits, o, ghHead)
    /\ (ppc = "done" /\ movedAfterRef /\ "updateref" \in Range(ghCalls)) =>
          /\ status = 500
          /\ "updateref" \in failed
          /\ ~IsAncestor(ghCommits, newCommit, ghHead)
          /\ ghHead \in otherShas

\* C5 witness: the other writer pushed between GetRef and UpdateRef, and the
\* publisher's UpdateRef was answered with a rejection
C5_Witness ==
    /\ ppc = "done"
    /\ movedAfterRef
    /\ newCommit # 0
    /\ ghCalls = <<"getref", "gettree", "createtree", "createcommit", "updateref">>
    /\ status = 500

\* C9: an empty batch is a no-op. When the listing yielded no key, the
\* invocation made no version-control call, created no commit, left heads/main
\* alone and answered 200.
C9_EmptyBatchNoOp ==
    (ppc = "done" /\ files = <<>>) =>
        /\ ghCalls = <<>>
        /\ newCommit = 0
        /\ (others = 0 => ghHead = headBefore)
        /\ status = 200

\* C9 witness: an invocation that listed nothing has answered
C9_Witness ==
    /\ ppc = "done"
    /\ runs >= 1
    /\ Listing(store, today) = <<>>
    /\ files = <<>>
    /\ status = 200

\* C12: a failed ref update is reported distinctly. When the Handler answers
\* 500, its body names the failed ref update exactly when the commit was created
\* and heads/main does not reach it; with any other body no commit was created.
C12_RefUpdateFailureDistinct ==
    (ppc = "done" /\ status = 500) =>
        /\ Len(respBody) = 2
        /\ (respBody[2] = UploadFilesError("updateref")) <=>
              /\ newCommit \in DOMAIN ghCommits
              /\ ~IsAncestor(ghCommits, newCommit, ghHead)
        /\ (respBody[2] # UploadFilesError("updateref")) <=> (newCommit = 0)

\* C12 witness: the ref update failed after the commit was created, and the
\* Handler has answered
C12_Witness ==
    /\ ppc = "done"
    /\ status = 500
    /\ "updateref" \in failed
    /\ newCommit \in DOMAIN ghCommits
    /\ ghHead = headBefore

\* C15: recovery by re-run. No publisher invocation changes the store; and an
\* invocation in which every call succeeds, made after one that ended on a
\* failure without a ref update, answers 200 and leaves heads/main at a commit
\* that holds every object listed under news/{today}/ (its own commit, or a
\* later push on top of it).
C15_RecoveryByRerun ==
    /\ [][store' = store]_vars
    /\ []((ppc = "done" /\ prevAborted /\ failed = {}) =>
            /\ status = 200
            /\ TreeHoldsBatch(ghHead)
            /\ (files # <<>>) => IsAncestor(ghCommits, newCommit, ghHead))

\* C15 witness: the second invocation published both objects after the first
\* was aborted
C15_Witness ==
    /\ ppc = "done"
    /\ runs = 2
    /\ prevAborted
    /\ failed = {}
    /\ Len(files) = MaxFiles
    /\ ghHead = newCommit
    /\ TreeHoldsBatch(newCommit)

\* the order of the version-control calls in UploadFiles
ProtocolOrder == <<"getref", "gettree", "createtree", "createcommit", "updateref">>

\* C17: protocol order and single write. The version-control calls of an
\* invocation are a prefix of get-ref, get-tree, create-tree, create-commit,
\* update-ref, and every call but the last made has succeeded; heads/main is
\* moved only by another writer or by the update-ref that ends a successful
\* invocation, and then to the new commit, whose parent is the head it replaces.
C17_ProtocolOrderSingleWrite ==
    /\ [](/\ Len(ghCalls) <= Len(ProtocolOrder)
          /\ ghCalls = SubSeq(ProtocolOrder, 1, Len(ghCalls))
          /\ \A n \in 1 .. Len(ghCalls) - 1 : ghCalls[n] \notin failed)
    /\ [][ghHead' # ghHead =>
            \/ others' # others
            \/ /\ ppc = "updateref"
               /\ ppc' = "done"
               /\ ghCalls' = ProtocolOrder
               /\ status' = 200
               /\ ghHead' = newCommit
               /\ ghCommits[newCommit].parent = ghHead]_vars

\* C17 witness: a successful invocation with two files added one commit
C17_Witness ==
    /\ ppc = "done"
    /\ status = 200
    /\ ghCalls = ProtocolOrder
    /\ Cardinality(DOMAIN fileContents) = 2
    /\ ghHead = newCommit
    /\ ghCommits[ghHead].parent = headBefore

\* C21: commit parent and monotonic head. The commit an invocation created has
\* as its one parent the head SHA its GetRef read, and as its tree the entries
\* layered onto the tree of that head; when a publish has succeeded the head
\* from before it is an ancestor of the new head; and heads/main only ever
\* moves to a commit that descends from the head it replaces.
C21_CommitParentMonotonicHead ==
    /\ [](newCommit # 0 =>
            /\ refSHA \in DOMAIN ghCommits
            /\ ghCommits[newCommit].parent = refSHA
            /\ ghCommits[newCommit].tree
                  = LayerTree(ghCommits[refSHA].tree, fileContents))
    /\ []((ppc = "done" /\ status = 200) =>
            IsAncestor(ghCommits, headBefore, ghHead))
    /\ [][ghHead' # ghHead => IsAncestor(ghCommits', ghHead, ghHead')]_vars

\* C21 witness: the second of two successful publishes has moved heads/main to
\* its commit, which descends from the first one's
C21_Witness ==
    /\ ppc = "done"
    /\ status = 200
    /\ runs = 2
    /\ ghHead = newCommit
    /\ ghCommits[newCommit].parent = headBefore
    /\ headBefore # 1
    /\ headBefore \notin otherShas

\* the keys of the store under news/{today}/
Batch == {k \in DOMAIN store : HasPrefix(k, today)}

\* C22: pagination is exhausted. While ListFiles runs it holds the keys of the
\* pages fetched so far; once it has returned, files holds every key under
\* news/{today}/ once and no other key; when a page failed, the Handler has no
\* list, has made no download and no version-control call and has not answered.
C22_PaginationExhausted ==
    /\ (ppc = "list") => files = SubSeq(Listing(store, today), 1, nextTok)
    /\ (ppc \notin {"idle", "list", "fatal"}) =>
          /\ Range(files) = Batch
          /\ Len(files) = Cardinality(Batch)
    /\ (ppc = "fatal") =>
          /\ "list" \in failed
          /\ files = <<>>
          /\ dlIdx = 1
          /\ fileContents = EmptyMap
          /\ "download" \notin failed
          /\ ghCalls = <<>>
          /\ newCommit = 0
          /\ status = 0

\* C22 witness: ListFiles has returned the keys of two pages
C22_Witness ==
    /\ ppc = "download"
    /\ dlIdx = 1
    /\ nextTok = 2 * PageSize
    /\ Len(files) = 2
    /\ files[1] # files[2]

\* C23: path re-rooting is injective. Every listed key news/{today}/F is mapped
\* to the path {today}/F and two different listed keys to different paths; an
\* iteration of the download loop that stores a file adds one new path with that
\* file's bytes and leaves every entry collected before as it was; and when no
\* download failed the map holds one entry per listed key.
C23_PathReRootingInjective ==
    /\ [](\A k \in Range(files) :
            /\ GithubFilePath(today, k) = [dir |-> today, file |-> <<k.day, k.name>>]
            /\ \A j \in Range(files) :
                  (j # k) => GithubFilePath(today, j) # GithubFilePath(today, k))
    /\ [][(ppc = "download" /\ fileContents' # fileContents) =>
            LET githubFilePath == GithubFilePath(today, files[dlIdx])
            IN  /\ githubFilePath \notin DOMAIN fileContents
                /\ DOMAIN fileContents' = DOMAIN fileContents \cup {githubFilePath}
                /\ fileContents'[githubFilePath] = store[files[dlIdx]]
                /\ \A p \in DOMAIN fileContents : fileContents'[p] = fileContents[p]]_vars
    /\ []((ppc \notin {"idle", "list", "fatal", "download"} /\ "download" \notin failed) =>
            Cardinality(DOMAIN fileContents) = Len(files))

\* C23 witness: two keys of one category have been collected under two paths
C23_Witness ==
    /\ ppc = "getref"
    /\ Len(files) = 2
    /\ files[1].name[1] = files[2].name[1]
    /\ Cardinality(DOMAIN fileContents) = 2

(***************************************************************************)
(* Properties of the orchestrator.                                         *)
(***************************************************************************)
\* the Handler has passed wg.Wait(): the publish call has begun or is over
PublishBegun == hpc \in {"publish", "return", "returned"}

\* C2: barrier before publish. Once the Handler has passed wg.Wait(), every
\* category task has returned and no article task is at its convert or
\* store-upload call (none is in flight, none starts later).
C2_BarrierBeforePublish ==
    PublishBegun =>
        /\ \A c \in Cats : cpc[c] = "done"
        /\ \A a \in Arts : apc[a] \in {"none", "done"}

\* C2 witness: the publish call has begun after article tasks ran
C2_Witness ==
    /\ hpc = "publish"
    /\ \E a \in Arts : apc[a] = "done" /\ upRes[a] = "ok"
    /\ \E a \in Arts : apc[a] = "done" /\ convRes[a] = "fail"

\* C6: the coordinator always releases. The barrier counters never go below
\* zero, and the Handler eventually returns, whatever the calls' outcomes.
C6_CoordinatorReleases ==
    /\ [](hwg >= 0 /\ \A c \in Cats : cwg[c] >= 0)
    /\ <>(hpc = "returned")

\* C6 witness: the Handler has returned in a run where an extraction call, a
\* convert call and a store upload failed
C6_Witness ==
    /\ hpc = "returned"
    /\ \E c \in Cats : scrapeRes[c] = "fail"
    /\ \E a \in Arts : convRes[a] = "fail"
    /\ \E a \in Arts : upRes[a] = "fail"

\* the key README.md documents for article i of category c stored on day d:
\* news/{d}/{d}_{c}_{i}.md
DocumentedKey(d, c, i) == [dir |-> d, day |-> d, name |-> <<c, i>>]

\* C7: failure isolation. When the Handler has returned: a category whose
\* extraction failed made no convert or upload call and has no object in the
\* store; every article of every other category had its convert call made,
\* and its upload call made if the convert succeeded, whatever its siblings
\* did; and every article whose convert and upload succeeded is in the store
\* under its own key.
C7_FailureIsolation ==
    (hpc = "returned") =>
        \A c \in Cats :
            /\ scrapeRes[c] \in {"ok", "fail"}
            /\ scrapeRes[c] = "fail" =>
                  /\ \A i \in Idx : convRes[<<c, i>>] = "none" /\ upRes[<<c, i>>] = "none"
                  /\ \A k \in DOMAIN store : k.name[1] # c
            /\ scrapeRes[c] = "ok" =>
                  \A i \in 0 .. nArt[c] - 1 :
                      /\ convRes[<<c, i>>] \in {"ok", "fail"}
                      /\ convRes[<<c, i>>] = "ok" => upRes[<<c, i>>] \in {"ok", "fail"}
                      /\ (convRes[<<c, i>>] = "ok" /\ upRes[<<c, i>>] = "ok") =>
                            /\ DocumentedKey(now, c, i) \in DOMAIN store
                            /\ store[DocumentedKey(now, c, i)] = CleanANSI(markdown[<<c, i>>])

\* C7 witness: one category's extraction failed, and in another one article
\* failed while its sibling was stored
C7_Witness ==
    /\ hpc = "returned"
    /\ \E c, d \in Cats :
          /\ scrapeRes[c] = "fail"
          /\ scrapeRes[d] = "ok"
          /\ nArt[d] = 2
          /\ \E i, j \in Idx :
                /\ convRes[<<d, i>>] = "fail"
                /\ upRes[<<d, j>>] = "ok"
                /\ DocumentedKey(now, d, j) \in DOMAIN store

\* C8: the Handler returns status 200 and a nil error in every execution.
C8_AlwaysReports200 ==
    (hpc = "returned") => (hstatus = 200 /\ herr = "nil")

\* C8 witness: the Handler has returned after every extraction call and the
\* publish call failed
C8_Witness ==
    /\ hpc = "returned"
    /\ \A c \in Cats : scrapeRes[c] = "fail"
    /\ pubRes # "ok"

\* the articles of the calls that got no response
Unanswered(call) == {a \in Arts : <<call, a>> \in noAnswer}

\* C24: a call that never answers is a task failure. Whichever calls get no
\* response, no task waits for ever and the Handler passes the barrier, makes the
\* publish call and returns 200; the task of an unanswered call has ended as
\* failed and made no later call (no article task for an unanswered extraction,
\* no upload after an unanswered convert); and every other task has run its
\* calls, an article whose calls were answered with success being in the store.
C24_NoAnswerIsTaskFailure ==
    /\ <>(hpc = "returned")
    /\ [](/\ hpc # "blocked"
          /\ \A c \in Cats : cpc[c] # "blocked"
          /\ \A a \in Arts : apc[a] # "blocked")
    /\ []((hpc = "returned") =>
            /\ hstatus = 200
            /\ pubRes # "none"
            /\ (PublishCall \in noAnswer) => pubRes = "error"
            /\ \A c \in Cats :
                  /\ scrapeRes[c] \in {"ok", "fail"}
                  /\ (ScrapeCall(c) \in noAnswer) =>
                        /\ scrapeRes[c] = "fail"
                        /\ \A i \in Idx : calls[<<c, i>>].convert = 0
            /\ \A a \in Unanswered("convert") :
                  convRes[a] = "fail" /\ calls[a].upload = 0
            /\ \A a \in Unanswered("upload") : upRes[a] = "fail"
            /\ \A a \in Arts :
                  (scrapeRes[a[1]] = "ok" /\ a[2] < nArt[a[1]]) =>
                      /\ apc[a] = "done"
                      /\ calls[a].convert = 1
                      /\ convRes[a] \in {"ok", "fail"}
                      /\ (convRes[a] = "ok") =>
                            (calls[a].upload = 1 /\ upRes[a] \in {"ok", "fail"})
                      /\ (upRes[a] = "ok") =>
                            DocumentedKey(now, a[1], a[2]) \in DOMAIN store)

\* C24 witness: the Handler has returned after the convert call of one article
\* got no response and its sibling was stored
C24_Witness ==
    /\ hpc = "returned"
    /\ pubRes # "none"
    /\ \E c \in Cats, i, j \in Idx :
          /\ ConvertCall(c, i) \in noAnswer
          /\ convRes[<<c, i>>] = "fail"
          /\ upRes[<<c, j>>] = "ok"
          /\ DocumentedKey(now, c, j) \in DOMAIN store

\* C30: log faithfulness. An article task has logged 'Successfully to Upload To
\* S3' only if the store-upload service stored its object and answered 200 and
\* UploadToS3 read that answer; after a failed UploadToS3 the line is not logged.
C30_UploadLogFaithful ==
    \A a \in Arts :
        (UploadedLine \in logs[a]) => (calls[a].put = 1 /\ upRes[a] = "ok")

(***************************************************************************)
(* Properties of a run: the orchestrator and the publisher it calls.       *)
(***************************************************************************)
\* the articles the extraction calls returned
Extracted == {a \in Arts : scrapeRes[a[1]] = "ok" /\ a[2] < nArt[a[1]]}

\* every convert call and every store-upload call of the run has succeeded
AllStored == \A a \in Extracted : convRes[a] = "ok" /\ upRes[a] = "ok"

\* the objects under news/{now}/
DayObjects == {k \in DOMAIN store : HasPrefix(k, now)}

\* the blobs of commit sha under {today}/
DayBlobs(sha) == {p \in DOMAIN ghCommits[sha].tree : p.dir = today}

\* C13: stored-object count and key uniqueness. In a run in which every
\* convert and upload call succeeded, once the fan-out has been joined the
\* objects under news/{today}/ are those of the extracted (category, index)
\* pairs, one each; and when the publisher has then answered 200, the head
\* commit holds exactly that many blobs under {today}/, one per object.
C13_ObjectsMatchArticles ==
    (PublishBegun /\ AllStored) =>
        /\ DayObjects = {DocumentedKey(now, a[1], a[2]) : a \in Extracted}
        /\ Cardinality(DayObjects) = Cardinality(Extracted)
        /\ (ppc = "done" /\ status = 200) =>
              /\ DayBlobs(ghHead) = {GithubFilePath(today, k) : k \in DayObjects}
              /\ Cardinality(DayBlobs(ghHead)) = Cardinality(Extracted)

\* the key under which the store-upload service stores article a today
ArticleKey(a) == DocumentedKey(now, a[1], a[2])

\* what C14 says of every article, given the set of articles that failed: each
\* call is made at most once, no upload call follows a failed convert call, a
\* failed article has no object in the store, is in no listing and among no
\* downloaded files of the publisher, and its task has returned as any other;
\* the Handler's result does not tell
BestEffortNoRetry(Failed) ==
    /\ \A a \in Arts :
          /\ calls[a].convert <= 1
          /\ calls[a].upload <= 1
          /\ convRes[a] = "fail" => (calls[a].upload = 0 /\ upRes[a] = "none")
          /\ (a \in Failed) =>
                /\ apc[a] = "done"
                /\ ArticleKey(a) \notin DOMAIN store
                /\ ArticleKey(a) \notin Range(files)
                /\ GithubFilePath(now, ArticleKey(a)) \notin DOMAIN fileContents
    /\ (hpc = "returned") => (hstatus = 200 /\ herr = "nil")

\* C14 as stated: the failed articles are those whose convert call or upload
\* call failed.
C14_FailedArticleNotStored ==
    BestEffortNoRetry({a \in Arts : convRes[a] = "fail" \/ upRes[a] = "fail"})

\* C14 (amended): the failed articles are those whose convert call failed or
\* whose upload call ended before the store-upload service had stored the
\* object; an article has an object in the store exactly if the service
\* completed the PutObject of its one upload call, also when UploadToS3 did not
\* get the answer and logged a failure.
C14_NoRetryBestEffort ==
    /\ BestEffortNoRetry({a \in Arts : \/ convRes[a] = "fail"
                                        \/ (upRes[a] = "fail" /\ calls[a].put = 0)})
    /\ \A a \in Arts :
          /\ calls[a].put <= calls[a].upload
          /\ (ArticleKey(a) \in DOMAIN store) <=> (calls[a].put = 1)

\* C14 witness: the publisher has listed the store after one article failed at
\* its convert call and the upload of another was refused
C14_Witness ==
    /\ ppc = "download"
    /\ \E a, b \in Extracted :
          /\ convRes[a] = "fail"
          /\ upRes[b] = "fail"
          /\ calls[b] = [convert |-> 1, upload |-> 1, put |-> 0]

\* C27: date agreement between store and publisher. Every object stored in the
\* run has a key news/D/D_{category}_{index}.md with one day D in both places;
\* once the publisher of the run has read its day, D is that day; and once it
\* has listed, every stored object is among the listed keys.
C27_DateAgreement ==
    /\ \A k \in DOMAIN store : k.dir = k.day
    /\ (ppc # "idle") => \A k \in DOMAIN store : k.dir = today
    /\ (ppc \notin {"idle", "list", "fatal"}) => DOMAIN store \subseteq Range(files)

(***************************************************************************)
(* Properties of the article pipeline.                                     *)
(***************************************************************************)
\* every cleaning call the convert Handler made has failed: the first content
\* call (the sub-pipeline stops there) and the date call
AllCleaningFailed ==
    /\ vpc = "done"
    /\ contentCalls # <<>>
    /\ dateCalls # <<>>
    /\ \A n \in DOMAIN contentCalls : ~contentCalls[n].ok
    /\ \A n \in DOMAIN dateCalls : ~dateCalls[n].ok

\* the traced article task has ended after both of its calls succeeded
TracedStored ==
    /\ apc[Traced] = "done"
    /\ convRes[Traced] = "ok"
    /\ upRes[Traced] = "ok"

\* C10 as stated: for an article whose cleaning calls all failed, the store
\* holds the Markdown rendered from the original title, content and date.
C10_StoredIsRendered ==
    (AllCleaningFailed /\ TracedStored) =>
        /\ DocumentedKey(now, Traced[1], Traced[2]) \in DOMAIN store
        /\ store[DocumentedKey(now, Traced[1], Traced[2])] = ConvertToMarkdown(request)

\* C10 (amended): for an article whose cleaning calls all failed, the convert
\* Handler answers 200 with the Markdown rendered from the original title,
\* content and date; the article task that receives it makes its upload call
\* with that Markdown, and a successful upload leaves in the store that
\* Markdown with its ANSI escape sequences removed.
C10_CleaningFailureNonFatal ==
    AllCleaningFailed =>
        /\ vResp = [status |-> 200, body |-> ConvertToMarkdown(request)]
        /\ (apc[Traced] = "done" /\ convRes[Traced] = "ok") =>
              /\ markdown[Traced] = ConvertToMarkdown(request)
              /\ upRes[Traced] \in {"ok", "fail"}
        /\ TracedStored =>
              /\ DocumentedKey(now, Traced[1], Traced[2]) \in DOMAIN store
              /\ store[DocumentedKey(now, Traced[1], Traced[2])]
                    = CleanANSI(ConvertToMarkdown(request))

\* C10 witness: all cleaning calls of an article failed and its Markdown, which
\* holds an ANSI escape sequence, has been stored
C10_Witness ==
    /\ AllCleaningFailed
    /\ TracedStored
    /\ request.Content = <<"e", "t">>
    /\ DocumentedKey(now, Traced[1], Traced[2]) \in DOMAIN store

(***************************************************************************)
(* Properties of the convert service.                                      *)
(***************************************************************************)
\* a call of the content sub-pipeline has failed
ContentFailed == \E n \in DOMAIN contentCalls : ~contentCalls[n].ok

\* the call of the date sub-pipeline has failed
DateFailed == \E n \in DOMAIN dateCalls : ~dateCalls[n].ok

\* the three calls of the content sub-pipeline have been made and succeeded
ContentCleaned ==
    /\ Len(contentCalls) = 3
    /\ \A n \in DOMAIN contentCalls : contentCalls[n].ok

\* C11: field-level partial failure. When the convert Handler has answered: if
\* a content call failed, Content is the original Content; if the date call
\* failed, Date is the original Date; the other field is what its own
\* sub-pipeline made of it (the date call's output, the third content call's
\* output); the title is untouched; and the answer is 200 with the rendered
\* article.
C11_FieldLevelPartialFailure ==
    (vpc = "done") =>
        /\ ContentFailed => article.Content = request.Content
        /\ DateFailed => article.Date = request.Date
        /\ ~DateFailed => article.Date = dateCalls[1].resp
        /\ ~ContentFailed => (ContentCleaned /\ article.Content = contentCalls[3].resp)
        /\ article.Title = request.Title
        /\ vResp = [status |-> 200, body |-> ConvertToMarkdown(article)]

\* C11 witness: the Handler has answered after the second content call failed
\* and the date call succeeded
C11_Witness ==
    /\ vpc = "done"
    /\ Len(contentCalls) = 2
    /\ ContentFailed
    /\ ~DateFailed
    /\ request.Content = <<"t">>
    /\ request.Date = <<"t">>
    /\ article.Date \in GptTexts

\* C18: content chain semantics. When the three content calls have succeeded,
\* each was sent the original Content, with prompts 1, 2, 3 in this order, and
\* Content is the output of the third call.
C18_ContentChain ==
    ContentCleaned =>
        /\ \A n \in 1 .. 3 :
              /\ contentCalls[n].Content = request.Content
              /\ contentCalls[n].Prompt = ContentPrompts[n]
        /\ gcpc = 0
        /\ article.Content = contentCalls[3].resp

\* C18 witness: the three calls succeeded, and the third returned another text
\* than the first two
C18_Witness ==
    /\ vpc = "done"
    /\ ContentCleaned
    /\ request.Content = <<"e", "t">>
    /\ contentCalls[1].resp # contentCalls[3].resp
    /\ contentCalls[2].resp # contentCalls[3].resp

\* C19 as stated: when stage k fails after stages 1 .. k-1 succeeded, no later
\* stage is called and Content is what the last successful stage returned (the
\* original Content if there is none).
C19_LeftAtLastSuccessfulStage ==
    \A k \in DOMAIN contentCalls :
        ~contentCalls[k].ok =>
            /\ Len(contentCalls) = k
            /\ article.Content =
                  IF k = 1 THEN request.Content ELSE contentCalls[k - 1].resp

\* C19 (amended): when stage k fails after stages 1 .. k-1 succeeded, no later
\* stage is called and Content is left at its original value: what the stages
\* before k returned is dropped.
C19_ShortCircuitKeepsOriginal ==
    \A k \in DOMAIN contentCalls :
        ~contentCalls[k].ok =>
            /\ \A j \in 1 .. k - 1 : contentCalls[j].ok
            /\ Len(contentCalls) = k
            /\ gcpc = 0
            /\ article.Content = request.Content

\* C19 witness: the third stage failed after the first two succeeded
C19_Witness ==
    /\ vpc = "done"
    /\ Len(contentCalls) = 3
    /\ contentCalls[1].ok
    /\ contentCalls[2].ok
    /\ ~contentCalls[3].ok
    /\ request.Content = <<"t">>

\* C20: transformer barrier. Once the Handler has rendered and answered, both
\* sub-pipelines have finished (each made its calls and ran its wg.Done), and in
\* every later state the answer is the rendering of the article as it is.
C20_TransformerBarrier ==
    (vpc = "done") =>
        /\ gcpc = 0
        /\ gdpc = 0
        /\ vwg = 0
        /\ contentCalls # <<>>
        /\ Len(dateCalls) = 1
        /\ vResp.body = ConvertToMarkdown(article)

\* C20 witness: the Handler has answered with both fields as their sub-pipelines
\* left them
C20_Witness ==
    /\ vpc = "done"
    /\ ContentCleaned
    /\ ~DateFailed
    /\ vResp.body = ConvertToMarkdown([Title |-> request.Title,
                                       Content |-> contentCalls[3].resp,
                                       Date |-> dateCalls[1].resp])


\* the document doc is the title block of a, a blank line, the content block of
\* a, a blank line and the date block of a, and nothing else
IsRendered(doc, a) ==
    LET t == Len(a.Title)
        c == Len(a.Content)
        d == Len(a.Date)
    IN  /\ Len(doc) = t + c + d + 7
        /\ doc[1] = "# **Title: "
        /\ SubSeq(doc, 2, t + 1) = a.Title
        /\ doc[t + 2] = "**"
        /\ doc[t + 3] = "\n\n  "
        /\ doc[t + 4] = "Content: "
        /\ SubSeq(doc, t + 5, t + c + 4) = a.Content
        /\ doc[t + c + 5] = "\n\n  "
        /\ doc[t + c + 6] = "**Date: "
        /\ SubSeq(doc, t + c + 7, t + c + d + 6) = a.Date
        /\ doc[t + c + d + 7] = "**"

\* C25: rendering is total and never empty. ConvertToMarkdown gives for every
\* article, the all-empty one included, a non-empty document made of the title
\* block, the content block and the date block in this order, separated by
\* blank lines; so the Handler never answers 500 'No articles processed', and it
\* answers every request 200 with the rendering of the article as cleaned.
C25_RenderingTotalNonEmpty ==
    /\ \A a \in Articles :
          /\ Len(ConvertToMarkdown(a)) > 0
          /\ IsRendered(ConvertToMarkdown(a), a)
    /\ vResp.status \in {0, 200}
    /\ (vpc = "done") =>
          /\ vResp.status = 200
          /\ Len(vResp.body) > 0
          /\ IsRendered(vResp.body, article)

\* C25 witness: the Handler has answered a request whose article was all empty
\* and stayed so, every cleaning call having failed
C25_Witness ==
    /\ vpc = "done"
    /\ request = NoArticle
    /\ article = NoArticle
    /\ vResp.status = 200
    /\ vResp.body = <<"# **Title: ", "**", "\n\n  ", "Content: ", "\n\n  ", "**Date: ", "**">>

(***************************************************************************)
(* Properties of the concurrent tasks.                                     *)
(***************************************************************************)
\* the fields of article
Fields == {"Title", "Content", "Date"}

\* one access set writes a field that the other reads or writes
Conflict(mine, theirs) ==
    \E f \in Fields : Write(f) \in mine /\ (Read(f) \in theirs \/ Write(f) \in theirs)

\* what a step of the task of article a leaves alone: the entries of every
\* other article, every object already in the store, the barrier counters of the
\* other categories and of the Handler, and the state of the category tasks
ArticleStepOwnState(a) ==
    /\ \A b \in Arts \ {a} :
          /\ apc'[b] = apc[b]
          /\ markdown'[b] = markdown[b]
          /\ convRes'[b] = convRes[b]
          /\ upRes'[b] = upRes[b]
          /\ calls'[b] = calls[b]
          /\ logs'[b] = logs[b]
    /\ \A k \in DOMAIN store : k \in DOMAIN store' /\ store'[k] = store[k]
    /\ DOMAIN store' \ DOMAIN store \subseteq {DocumentedKey(now, a[1], a[2])}
    /\ \A c \in Cats \ {a[1]} : cwg'[c] = cwg[c]
    /\ UNCHANGED <<hwg, cpc, nArt, spawnIdx, scrapeRes>>

\* what a step of the task of category c leaves alone: the state of every other
\* category task and of the article tasks of the other categories, and the store
CategoryStepOwnState(c) ==
    /\ \A d \in Cats \ {c} :
          /\ cpc'[d] = cpc[d]
          /\ nArt'[d] = nArt[d]
          /\ spawnIdx'[d] = spawnIdx[d]
          /\ scrapeRes'[d] = scrapeRes[d]
          /\ cwg'[d] = cwg[d]
    /\ \A b \in Arts : (b[1] # c) => apc'[b] = apc[b]
    /\ UNCHANGED <<store, markdown, convRes, upRes, calls, logs>>

\* C26: no conflicting shared access between concurrent tasks. In the convert
\* Handler the content sub-pipeline reads and writes article.Content only and
\* the date sub-pipeline article.Date only, neither writes what the other
\* reads or writes, and the Handler renders only when both have finished; a step
\* of an article task or of a category task changes only that task's own state,
\* the object under its own key and the barrier counter it belongs to.
C26_NoConflictingSharedAccess ==
    /\ [](/\ access.content \subseteq {Read("Content"), Write("Content")}
          /\ access.date \subseteq {Read("Date"), Write("Date")}
          /\ ~Conflict(access.content, access.date)
          /\ ~Conflict(access.date, access.content)
          /\ (vResp.status # 0) => (gcpc = 0 /\ gdpc = 0 /\ vwg = 0))
    /\ [][/\ \A a \in Arts :
               (apc[a] \in {"convert", "upload"} /\ apc'[a] # apc[a]) =>
                   ArticleStepOwnState(a)
           /\ \A c \in Cats :
               (cpc[c] \in {"scrape", "spawn", "wait"} /\ cpc'[c] # cpc[c]) =>
                   CategoryStepOwnState(c)]_vars

\* C26 witness: both sub-pipelines have read and written their fields while the
\* task of a second article was at its upload call
C26_Witness ==
    /\ vpc = "wait"
    /\ Write("Content") \in access.content
    /\ Write("Date") \in access.date
    /\ apc[Traced] = "convert"
    /\ \E a \in Arts \ {Traced} : apc[a] = "upload"

(***************************************************************************)
(* Properties of the cleaning service.                                     *)
(***************************************************************************)
\* C28: a failure of the cleaning call is returned as an error response. When
\* the chat-completion call of a request has failed, the Handler answers that
\* request 500 with an error body; a request with an invalid body is answered
\* 400; and the process is never ended by a request.
C28_FailureReturnedAs500 ==
    /\ kpc # "exited"
    /\ exits = 0
    /\ (chatRes = "error") =>
          /\ kpc = "done"
          /\ kResp.status = 500
          /\ Len(kResp.body) > 0
    /\ (kpc = "done" /\ ~gptRequest.valid) => kResp.status = 400

(***************************************************************************)
(* Properties of the extraction service.                                   *)
(***************************************************************************)
\* every scraping goroutine has been started and its ScrapeArticle has returned
AllScrapesReturned ==
    /\ headlineLinks > 0
    /\ \A g \in 1 .. headlineLinks : spc[g] \in {"send", "done"}

\* C29: the extraction fan-in is deadlock-free and lossless. A goroutine at its
\* send never finds the buffer full; there are at most n sends; results is
\* closed only when every goroutine has finished, and no send meets the closed
\* channel; once every ScrapeArticle has returned the Handler ends its
\* collection loop and answers; and the collected list then holds the articles
\* scraped with success, each once.
C29_FanInDeadlockFreeLossless ==
    /\ [](\A g \in Links :
            (spc[g] = "send") => Len(results) < ResultsCapacity(headlineLinks))
    /\ [](sends <= headlineLinks /\ Len(results) <= headlineLinks)
    /\ [](resultsClosed => \A g \in Links : spc[g] \in {"none", "done"})
    /\ [](~sendPanic)
    /\ [](xwg >= 0)
    /\ AllScrapesReturned ~> (xpc = "done")
    /\ []((xpc = "done" /\ headlineLinks > 0) =>
            /\ Range(xArticles) = scraped
            /\ Len(xArticles) = Cardinality(scraped)
            /\ results = <<>>
            /\ xResp.status = IF scraped = {} THEN 500 ELSE 200)

\* C29 witness: the Handler has answered with two articles after the scrape of
\* a third link failed
C29_Witness ==
    /\ xpc = "done"
    /\ headlineLinks = 3
    /\ Cardinality(scraped) = 2
    /\ Len(xArticles) = 2
    /\ xResp.status = 200

=============================================================================
